---- MODULE Spec2Model ----
(***************************************************************************)
(* Model of the chat endpoint of VollenBot: the token estimator, the       *)
(* truncator, the history trimmer, the context assembler and the POST      *)
(* handler that composes them.                                             *)
(*                                                                         *)
(* The repository holds two builds of the endpoint:                        *)
(*   "chatbot"  src/app/components/Chatbot.tsx, lines 1164-1959            *)
(*              (pair-aware trimHistory, MAX_HISTORY_TOKENS = 50000,       *)
(*               contextual query, sources event disabled)                 *)
(*   "route"    src/app/api/chat/route.ts                                  *)
(*              (plain trimHistory, MAX_HISTORY_TOKENS = 1000,             *)
(*               sources event sent before the done signal)                *)
(* The variable build says which one a behaviour runs.                     *)
(*                                                                         *)
(* Texts.  A JavaScript string is modelled as its run-length encoding: a   *)
(* sequence of runs [ch |-> c, n |-> k] (the character c repeated k >= 1   *)
(* times) in which adjacent runs have different characters.  The encoding  *)
(* is one-to-one, so equality of texts is equality of strings, and it lets *)
(* the model hold the 200000-character turns that the history budget of    *)
(* 50000 tokens is about.                                                  *)
(***************************************************************************)
EXTENDS Integers, Sequences, FiniteSets, TLC

VARIABLES
    build,          \* "chatbot" or "route": which build of the endpoint runs
    pc,             \* position of the running operation
    text,           \* truncator: the text handed to truncateToTokens
    maxTokens,      \* truncator: the budget handed to truncateToTokens
    truncated,      \* truncator: the string truncateToTokens returned
    history,        \* the conversation history of the request, oldest first
    trimmedHistory, \* what trimHistory returned
    matches,        \* the retrieval matches, in the order retrieval ranked them
    systemPrompt,   \* the system prompt handed to the context assembler
    userQuery,      \* the user query handed to the context assembler
    historyTokens,  \* the history token count handed to the context assembler
    assembled,      \* what buildContextWithTokenManagement returned
    env,            \* which environment variables are set
    clientIP,       \* the client IP of the request
    now,            \* Date.now() when the request arrives
    rateLimitStore, \* the process-wide map from client IP to its window record
    rateLimit,      \* what checkRateLimit returned for the request
    message,        \* the message field of the request body
    embedResult,    \* outcome of the embedding call
    rpcResult,      \* outcome of the match_documents RPC
    calls,          \* external calls made for the request, by kind
    reached,        \* the pipeline steps the request has executed
    response,       \* the HTTP response the handler returned
    sources,        \* the sources prepared for the sources event
    chatStream,     \* the generation stream: its chunks and how it ends
    readPos,        \* chunks of chatStream read so far
    out,            \* the events enqueued on the response stream, in order
    usedMatches,    \* source selector: the matches handed to findMostRelevantSource
    bestSource,     \* what findMostRelevantSource returned
    query,          \* the query handed to buildContextualQuery
    contextualQuery, \* what buildContextualQuery returned
    latency,        \* how long the embedding, RPC and chat calls take to resolve
    clock,          \* Date.now()
    embeddingTime,  \* handler local: measured time of the embedding call
    supabaseTime,   \* handler local: measured time of the RPC
    chatStart,      \* handler local: Date.now() at the chat call
    chatTime,       \* handler local: time from chatStart to the first token
    firstTokenSent, \* handler local: a token event has been enqueued
    headers,        \* the X-Performance headers of the streaming response
    cancelled,      \* the consumer has cancelled the response stream
    readAfterCancel, \* chunks with content read since the stream was cancelled
    client,         \* which consumer reads the response: "script" or "widget"
    garbled,        \* the frame of the response that reaches the consumer
                    \* unparseable (0: none)
    delivered,      \* frames of the response the consumer has received whole
    partial,        \* the consumer's buffer holds the start of the next frame
    clientState,    \* the consumer's output, sources flag and status
    windows,        \* rate limiter history: for each client IP, when its
                    \* current window was opened and the requests allowed in it
    plainStore,     \* rate limiter history: the store had no cleanup ever run
    widget          \* the chat widget: its React state, its debounce timer and
                    \* the sendMessage calls that have not returned

truncVars == <<text, maxTokens, truncated>>
histVars == <<history, trimmedHistory>>
ctxVars == <<matches, systemPrompt, userQuery, historyTokens, assembled>>

perfVars == <<latency, clock, embeddingTime, supabaseTime, chatStart, chatTime,
              firstTokenSent, headers>>
cancelVars == <<cancelled, readAfterCancel>>
clientVars == <<client, garbled, delivered, partial, clientState>>
limVars == <<windows, plainStore>>
uiVars == <<widget>>

reqVars == <<env, clientIP, now, rateLimitStore, rateLimit, message,
             embedResult, rpcResult, calls, reached, response, sources,
             chatStream, readPos, out, perfVars, cancelVars, clientVars,
             limVars, uiVars>>

srcVars == <<usedMatches, bestSource>>
qryVars == <<query, contextualQuery>>

vars == <<build, pc, truncVars, histVars, ctxVars, reqVars, srcVars, qryVars>>

----------------------------------------------------------------------------
(* Program constants *)

MAX_CONTEXT_TOKENS == 3000
MAX_HISTORY_TOKENS == 50000
MAX_HISTORY_TOKENS_ROUTE == 1000
\* TOKENS_PER_CHAR = 0.25, kept as its reciprocal: 4 characters per token
CHARS_PER_TOKEN == 4
MIN_CHUNK_TOKENS == 50

Builds == {"chatbot", "route"}

----------------------------------------------------------------------------
(* Strings *)

Max(a, b) == IF a >= b THEN a ELSE b

\* s + c.repeat(n)
AppendRun(s, c, n) ==
    IF n <= 0 THEN s
    ELSE IF s # <<>> /\ s[Len(s)].ch = c
         THEN [s EXCEPT ![Len(s)].n = @ + n]
         ELSE Append(s, [ch |-> c, n |-> n])

\* c.repeat(n)
Rep(c, n) == AppendRun(<<>>, c, n)

\* s + t: the runs of s then those of t, the last run of s and the first of t
\* made one when they have the same character
Concat(s, t) ==
    IF t = <<>> THEN s
    ELSE AppendRun(s, Head(t).ch, Head(t).n) \o Tail(t)

RECURSIVE LengthOfRange(_, _, _)
\* the number of characters in the runs lo..hi of s
LengthOfRange(s, lo, hi) ==
    IF lo > hi THEN 0
    ELSE IF lo = hi THEN s[lo].n
    ELSE LET mid == (lo + hi) \div 2
         IN  LengthOfRange(s, lo, mid) + LengthOfRange(s, mid + 1, hi)

\* s.length
Length(s) == LengthOfRange(s, 1, Len(s))

RECURSIVE substring(_, _)
\* s.substring(0, k): the first k characters (all of s when k > s.length)
substring(s, k) ==
    IF s = <<>> \/ k <= 0 THEN <<>>
    ELSE IF Head(s).n >= k THEN <<[ch |-> Head(s).ch, n |-> k]>>
    ELSE <<Head(s)>> \o substring(Tail(s), k - Head(s).n)

RECURSIVE LastIndexFrom(_, _, _, _)
LastIndexFrom(s, c, off, best) ==
    IF s = <<>> THEN best
    ELSE LastIndexFrom(Tail(s), c, off + Head(s).n,
                       IF Head(s).ch = c THEN off + Head(s).n - 1 ELSE best)

\* s.lastIndexOf(c): the 0-based index of the last c in s, -1 when there is none
lastIndexOf(s, c) == LastIndexFrom(s, c, 0, -1)

Ellipsis == Rep(".", 3)

----------------------------------------------------------------------------
(* Token estimator and truncator *)

\* Math.ceil(text.length * TOKENS_PER_CHAR)
estimateTokens(s) == (Length(s) + CHARS_PER_TOKEN - 1) \div CHARS_PER_TOKEN

RECURSIVE Pow2Floor(_)
\* the largest power of two that is at most k (k >= 1)
Pow2Floor(k) == IF k < 2 THEN 1 ELSE 2 * Pow2Floor(k \div 2)

\* k > m * 0.7 in IEEE-754 double arithmetic, for integers k and m >= 0.
\* The double nearest 0.7 lies below 0.7, and when 0.7 * m is an integer in the
\* upper quarter of its binade the product rounds to the double below it, so
\* that k = 0.7 * m compares greater (180 * 0.7 is 125.99999999999999).
ExceedsSeventyPercent(k, m) ==
    \/ 10 * k > 7 * m
    \/ (10 * k = 7 * m /\ k > 0 /\ 4 * k > 7 * Pow2Floor(k))

\* k > m * 0.8 in double arithmetic: exact for 0 <= m < 400000
ExceedsEightyPercent(k, m) == 10 * k > 8 * m

\* truncateToTokens with text.length < maxChars as its test of a text that fits
truncateToTokensStrict(s, budget) ==
    LET maxChars == budget * CHARS_PER_TOKEN
        cut == substring(s, maxChars)
        lastPeriod == lastIndexOf(cut, ".")
        lastExclamation == lastIndexOf(cut, "!")
        lastQuestion == lastIndexOf(cut, "?")
        lastSentenceEnd == Max(lastPeriod, Max(lastExclamation, lastQuestion))
        lastSpace == lastIndexOf(cut, " ")
    IN  IF Length(s) < maxChars THEN s
        ELSE IF ExceedsSeventyPercent(lastSentenceEnd, maxChars)
             THEN substring(s, lastSentenceEnd + 1)
        ELSE IF ExceedsEightyPercent(lastSpace, maxChars)
             THEN Concat(substring(s, lastSpace), Ellipsis)
        ELSE Concat(cut, Ellipsis)

truncateToTokens(s, budget) ==
    LET maxChars == budget * CHARS_PER_TOKEN
        cut == substring(s, maxChars)
        lastPeriod == lastIndexOf(cut, ".")
        lastExclamation == lastIndexOf(cut, "!")
        lastQuestion == lastIndexOf(cut, "?")
        lastSentenceEnd == Max(lastPeriod, Max(lastExclamation, lastQuestion))
        lastSpace == lastIndexOf(cut, " ")
    IN  IF Length(s) <= maxChars THEN s
        ELSE IF ExceedsSeventyPercent(lastSentenceEnd, maxChars)
             THEN substring(s, lastSentenceEnd + 1)
        ELSE IF ExceedsEightyPercent(lastSpace, maxChars)
             THEN Concat(substring(s, lastSpace), Ellipsis)
        ELSE Concat(cut, Ellipsis)

----------------------------------------------------------------------------
(* Input texts of the truncator: up to MaxRuns runs of 1..MaxRunLen chars *)

MaxRuns == 3
MaxRunLen == 3
MaxBudget == 2

Chars == {"a", " ", ".", "?"}

RECURSIVE TextsOfRuns(_)
TextsOfRuns(k) ==
    IF k = 0 THEN {<<>>}
    ELSE LET shorter == TextsOfRuns(k - 1)
         IN  {AppendRun(s, c, n) :
                 s \in {x \in shorter : Len(x) = k - 1},
                 c \in Chars, n \in 1..MaxRunLen} \cup shorter

TruncTexts == {s \in TextsOfRuns(MaxRuns) : Length(s) <= 4 * MaxRunLen}

----------------------------------------------------------------------------
(* The truncator on its own *)

NoResult == [context |-> <<>>, selectedMatches |-> <<>>, totalTokens |-> 0]

NoHistory == history = <<>> /\ trimmedHistory = <<>>
NoTruncation == text = <<>> /\ maxTokens = 0 /\ truncated = <<>>
NoContext ==
    /\ matches = <<>>
    /\ systemPrompt = <<>>
    /\ userQuery = <<>>
    /\ historyTokens = 0
    /\ assembled = NoResult

IPs == {"ip1", "ip2"}

NoRecord == [present |-> FALSE, count |-> 0, resetAt |-> 0]
EmptyStore == [ip \in IPs |-> NoRecord]
NoRateLimit == [allowed |-> FALSE, remaining |-> 0, resetAt |-> 0]
NoResponse ==
    [kind |-> "none", status |-> 0, error |-> "", answer |-> "", sources |-> <<>>]
NoRpc == [state |-> "pending", data |-> <<>>]
NoStream == [items |-> <<>>, ending |-> "end", wording |-> "plain"]
NoCalls == [embed |-> 0, rpc |-> 0, chat |-> 0]

\* no source: findMostRelevantSource returned null (or was not called)
NullSource == [found |-> FALSE, url |-> "", title |-> "", content |-> <<>>]
NoSource == usedMatches = <<>> /\ bestSource = NullSource
NoQuery == query = <<>> /\ contextualQuery = <<>>

\* no X-Performance headers
NoHeaders ==
    [present |-> FALSE, embedding |-> 0, supabase |-> 0, chat |-> 0, ttfb |-> 0]

\* the timing locals as declared: let embeddingTime = 0, ...
NoTimes ==
    /\ embeddingTime = 0
    /\ supabaseTime = 0
    /\ chatStart = 0
    /\ chatTime = 0
    /\ firstTokenSent = FALSE
    /\ headers = NoHeaders

NoCancel == cancelled = FALSE /\ readAfterCancel = 0

\* the consumer before its first read: output = '', sourcesReceived = false
NoClientState ==
    [output |-> <<>>, sourcesReceived |-> FALSE, status |-> "SUCCESS",
     done |-> FALSE]

\* no debounce timer is pending
NoTimer == [pending |-> FALSE, input |-> FALSE, isLoading |-> FALSE]

\* the widget after initializeBot: isLoading false, showChips false with the
\* timer that shows the chips pending, input '' (input stands for
\* input.trim() !== ''), no sendMessage running
NoWidget ==
    [isLoading |-> FALSE, showChips |-> FALSE, chipsTimer |-> TRUE,
     input |-> FALSE, timer |-> NoTimer, requests |-> <<>>]

\* no window of a client: no request of it was allowed yet
NoWindow == [present |-> FALSE, openedAt |-> 0, allowed |-> 0]

NoLimitHistory ==
    /\ windows = [ip \in IPs |-> NoWindow]
    /\ plainStore = EmptyStore

NoClient ==
    /\ client = "script"
    /\ garbled = 0
    /\ delivered = 0
    /\ partial = FALSE
    /\ clientState = NoClientState

NoRequest ==
    /\ env = [openaiKey |-> TRUE, supabaseUrl |-> TRUE, supabaseKey |-> TRUE]
    /\ clientIP = "ip1"
    /\ now = 0
    /\ rateLimitStore = EmptyStore
    /\ rateLimit = NoRateLimit
    /\ message = [kind |-> "string", value |-> <<>>]
    /\ embedResult = "pending"
    /\ rpcResult = NoRpc
    /\ calls = NoCalls
    /\ reached = {}
    /\ response = NoResponse
    /\ sources = <<>>
    /\ chatStream = NoStream
    /\ readPos = 0
    /\ out = <<>>
    /\ latency = [embed |-> 1, rpc |-> 1, chat |-> 1]
    /\ clock = 0
    /\ NoTimes
    /\ NoCancel
    /\ NoClient
    /\ NoLimitHistory
    /\ widget = NoWidget

InitTruncate ==
    /\ build = "chatbot"
    /\ pc = "truncate"
    /\ text \in TruncTexts
    /\ maxTokens \in 0..MaxBudget
    /\ truncated = <<>>
    /\ NoHistory
    /\ NoContext
    /\ NoRequest
    /\ NoSource
    /\ NoQuery

Truncate ==
    /\ pc = "truncate"
    /\ truncated' = truncateToTokens(text, maxTokens)
    /\ pc' = "truncated"
    /\ UNCHANGED <<build, text, maxTokens, histVars, ctxVars, reqVars, srcVars,
                   qryVars>>

NextTruncate == Truncate

SpecTruncate == InitTruncate /\ [][NextTruncate]_vars

----------------------------------------------------------------------------
(* History trimmer *)

\* A turn is [idx, role, content]: idx is the turn's position in the request's
\* history (the code handles turns by object reference, and a truncated copy
\* {...msg, content} stands for the turn it was copied from).
Roles == {"user", "assistant"}

\* arr.unshift(x)
unshift(arr, x) == <<x>> \o arr

\* MAX_HISTORY_TOKENS of the build
MaxHistoryTokens(b) ==
    IF b = "route" THEN MAX_HISTORY_TOKENS_ROUTE ELSE MAX_HISTORY_TOKENS

\* totalTokens < MAX_HISTORY_TOKENS * 0.9 (45000.0 and 900.0 are exact doubles)
BelowNinetyPercent(totalTokens, max) == 10 * totalTokens < 9 * max

RECURSIVE TrimLoop(_, _, _, _)
\* The loop of the pair-aware trimHistory from index i (1-based) downwards.
TrimLoop(h, i, totalTokens, trimmed) ==
    IF i < 1 THEN trimmed
    ELSE
    LET msg == h[i]
        msgTokens == estimateTokens(msg.content)
        isPartOfPair ==
            \/ (msg.role = "assistant" /\ i > 1 /\ h[i - 1].role = "user")
            \/ (msg.role = "user" /\ i < Len(h) /\ h[i + 1].role = "assistant")
        pairWithUser == isPartOfPair /\ msg.role = "assistant" /\ i > 1
        pairTokens ==
            IF pairWithUser THEN msgTokens + estimateTokens(h[i - 1].content)
            ELSE msgTokens
        remainingTokens == MAX_HISTORY_TOKENS - totalTokens
    IN
    IF totalTokens + pairTokens <= MAX_HISTORY_TOKENS
    THEN IF pairWithUser
         THEN TrimLoop(h, i - 2, totalTokens + pairTokens,
                       unshift(unshift(trimmed, h[i - 1]), msg))
         ELSE TrimLoop(h, i - 1, totalTokens + msgTokens, unshift(trimmed, msg))
    ELSE IF ~BelowNinetyPercent(totalTokens, MAX_HISTORY_TOKENS) THEN trimmed
    ELSE IF ~(remainingTokens >= MIN_CHUNK_TOKENS) THEN trimmed
    ELSE IF pairWithUser
    THEN LET userMsg == h[i - 1]
             userTokens == estimateTokens(userMsg.content)
             assistantTokens == estimateTokens(msg.content)
         IN  IF remainingTokens >= userTokens + assistantTokens
             THEN unshift(unshift(trimmed, userMsg), msg)
             ELSE IF remainingTokens >= userTokens + MIN_CHUNK_TOKENS
             THEN unshift(unshift(trimmed, userMsg),
                          [msg EXCEPT !.content =
                              truncateToTokens(msg.content,
                                               remainingTokens - userTokens)])
             ELSE unshift(trimmed,
                          [userMsg EXCEPT !.content =
                              truncateToTokens(userMsg.content, remainingTokens)])
    ELSE unshift(trimmed,
                 [msg EXCEPT !.content =
                     truncateToTokens(msg.content, remainingTokens)])

RECURSIVE TrimLoopUnpaired(_, _, _, _)
\* The trimmer with the pair test left out: every turn is budgeted on its own.
TrimLoopUnpaired(h, i, totalTokens, trimmed) ==
    IF i < 1 THEN trimmed
    ELSE
    LET msg == h[i]
        msgTokens == estimateTokens(msg.content)
        remainingTokens == MAX_HISTORY_TOKENS - totalTokens
    IN
    IF totalTokens + msgTokens <= MAX_HISTORY_TOKENS
    THEN TrimLoopUnpaired(h, i - 1, totalTokens + msgTokens,
                          unshift(trimmed, msg))
    ELSE IF BelowNinetyPercent(totalTokens, MAX_HISTORY_TOKENS)
            /\ remainingTokens >= MIN_CHUNK_TOKENS
    THEN unshift(trimmed,
                 [msg EXCEPT !.content =
                     truncateToTokens(msg.content, remainingTokens)])
    ELSE trimmed

trimHistoryUnpaired(h) == TrimLoopUnpaired(h, Len(h), 0, <<>>)

\* trimHistory of the chatbot build (pair-aware)
trimHistory(h) == IF Len(h) = 0 THEN <<>> ELSE TrimLoop(h, Len(h), 0, <<>>)

RECURSIVE TrimLoopRoute(_, _, _, _)
\* The loop of the route build's trimHistory from index i (1-based) downwards.
TrimLoopRoute(h, i, totalTokens, trimmed) ==
    IF i < 1 THEN trimmed
    ELSE
    LET msg == h[i]
        msgTokens == estimateTokens(msg.content)
        remainingTokens == MAX_HISTORY_TOKENS_ROUTE - totalTokens
    IN
    IF totalTokens + msgTokens <= MAX_HISTORY_TOKENS_ROUTE
    THEN TrimLoopRoute(h, i - 1, totalTokens + msgTokens, unshift(trimmed, msg))
    ELSE IF BelowNinetyPercent(totalTokens, MAX_HISTORY_TOKENS_ROUTE)
            /\ remainingTokens >= MIN_CHUNK_TOKENS
    THEN unshift(trimmed,
                 [msg EXCEPT !.content =
                     truncateToTokens(msg.content, remainingTokens)])
    ELSE trimmed

\* trimHistory of the route build
trimHistoryRoute(h) == TrimLoopRoute(h, Len(h), 0, <<>>)

RECURSIVE SumTokens(_)
\* turns.reduce((sum, msg) => sum + estimateTokens(msg.content), 0)
SumTokens(turns) ==
    IF turns = <<>> THEN 0
    ELSE estimateTokens(Head(turns).content) + SumTokens(Tail(turns))

----------------------------------------------------------------------------
(* Input histories of the trimmer: up to MaxTurns turns, each with a content
   sized against the history budget of the build *)

MaxTurns == 3

\* Contents for a budget of m tokens: a short answer, half the budget, 95% of
\* it, exactly the budget, one token over, and texts over the budget whose cut
\* falls after a sentence end and after a space.
HistoryTexts(m) ==
    LET c == m * CHARS_PER_TOKEN
    IN  { Rep("a", 2),
          Rep("a", c \div 2),
          Rep("a", (c * 95) \div 100),
          Rep("a", c),
          Rep("a", c + CHARS_PER_TOKEN),
          Concat(Rep("a", c - 8), Concat(Rep(".", 1), Rep("a", 16))),
          Concat(Rep("a", c - 2), Concat(Rep(" ", 1), Rep("a", 8))) }

\* the history with roles r[1..n] and contents t[1..n]
HistoryOf(r, t) ==
    [i \in DOMAIN r |-> [idx |-> i, role |-> r[i], content |-> t[i]]]

----------------------------------------------------------------------------
(* The trimmer on its own *)

InitTrim ==
    /\ build \in Builds
    /\ pc = "trim"
    /\ \E n \in 0..MaxTurns :
          \E r \in [1..n -> Roles],
             t \in [1..n -> HistoryTexts(MaxHistoryTokens(build))] :
              history = HistoryOf(r, t)
    /\ trimmedHistory = <<>>
    /\ NoTruncation
    /\ NoContext
    /\ NoRequest
    /\ NoSource
    /\ NoQuery

TrimChatbot ==
    /\ pc = "trim"
    /\ build = "chatbot"
    /\ trimmedHistory' = trimHistory(history)
    /\ pc' = "trimmed"
    /\ UNCHANGED <<build, truncVars, srcVars, qryVars, history, ctxVars, reqVars>>

TrimRoute ==
    /\ pc = "trim"
    /\ build = "route"
    /\ trimmedHistory' = trimHistoryRoute(history)
    /\ pc' = "trimmed"
    /\ UNCHANGED <<build, truncVars, srcVars, qryVars, history, ctxVars, reqVars>>

NextTrim == TrimChatbot \/ TrimRoute

SpecTrim == InitTrim /\ [][NextTrim]_vars

----------------------------------------------------------------------------
(* Contextual query builder *)

RECURSIVE FromChars(_)
\* the text with the characters cs[1], cs[2], ...
FromChars(cs) ==
    IF cs = <<>> THEN <<>>
    ELSE Concat(Rep(Head(cs), 1), FromChars(Tail(cs)))

\* the characters the regular expression \s matches, of those the model uses
IsSpace(c) == c \in {" ", "\n", "\t"}

\* query.trim().split(/\s+/).filter(w => w.length > 0).length: the number of
\* maximal stretches of characters that are not white space
wordCount(s) ==
    Cardinality({k \in DOMAIN s :
                    ~IsSpace(s[k].ch) /\ (k = 1 \/ IsSpace(s[k - 1].ch))})

\* isShortFollowUp with the word count left out
isShortFollowUpAnyLength(q, h) == Len(h) > 0

isShortFollowUp(q, h) == wordCount(q) <= 3 /\ Len(h) > 0

RECURSIVE CollectLoopNewestFirst(_, _, _)
\* CollectLoop with push in place of unshift
CollectLoopNewestFirst(h, i, recentContext) ==
    IF i < 1 THEN recentContext
    ELSE LET msg == h[i]
             taken ==
                 \/ (msg.role = "assistant" /\ Length(msg.content) < 1000)
                 \/ (msg.role = "user" /\ Length(msg.content) < 500)
         IN  CollectLoopNewestFirst(h, i - 1,
                 IF taken THEN Append(recentContext, msg.content)
                 ELSE recentContext)

RECURSIVE CollectLoop(_, _, _)
\* The loop over the history from index i (1-based) downwards: recentContext
CollectLoop(h, i, recentContext) ==
    IF i < 1 THEN recentContext
    ELSE LET msg == h[i]
             withAssistant ==
                 IF msg.role = "assistant" /\ Length(msg.content) < 1000
                 THEN unshift(recentContext, msg.content)
                 ELSE recentContext
             withUser ==
                 IF msg.role = "user" /\ Length(msg.content) < 500
                 THEN unshift(withAssistant, msg.content)
                 ELSE withAssistant
         IN  CollectLoop(h, i - 1, withUser)

RECURSIVE JoinSpaces(_)
\* parts.join(' ')
JoinSpaces(parts) ==
    IF parts = <<>> THEN <<>>
    ELSE IF Len(parts) = 1 THEN parts[1]
    ELSE Concat(parts[1], Concat(Rep(" ", 1), JoinSpaces(Tail(parts))))

buildContextualQuery(q, h) ==
    IF ~isShortFollowUp(q, h) THEN q
    ELSE LET recentContext == CollectLoop(h, Len(h), <<>>)
         IN  IF Len(recentContext) > 0
             THEN Concat(q, Concat(Rep(" ", 1), JoinSpaces(recentContext)))
             ELSE q

----------------------------------------------------------------------------
(* The contextual query builder on its own *)

\* queries of no, one, two (with white space around), three and four words
QueryInputs ==
    { <<>>,
      FromChars(<<"t", "o", "d", "a", "y">>),
      FromChars(<<" ", "a", " ", " ", "b", "\n">>),
      FromChars(<<"a", " ", "b", " ", "c">>),
      FromChars(<<"a", " ", "b", " ", "c", " ", "d">>) }

\* turn contents: empty, a clarifying question, and texts just under and at
\* the ceilings of the two roles
TurnTexts ==
    { <<>>,
      FromChars(<<"t", "o", "d", "a", "y", " ", "o", "r", " ", "t", "h", "e",
                  " ", "w", "e", "e", "k", "e", "n", "d", "?">>),
      Rep("u", 499),
      Rep("u", 500),
      Rep("v", 999),
      Rep("v", 1000) }

InitQuery ==
    /\ build = "chatbot"
    /\ pc = "expand"
    /\ query \in QueryInputs
    /\ \E n \in 0..MaxTurns :
          \E r \in [1..n -> Roles], c \in [1..n -> TurnTexts] :
              history = HistoryOf(r, c)
    /\ contextualQuery = <<>>
    /\ trimmedHistory = <<>>
    /\ NoTruncation
    /\ NoContext
    /\ NoRequest
    /\ NoSource

Expand ==
    /\ pc = "expand"
    /\ contextualQuery' = buildContextualQuery(query, history)
    /\ pc' = "expanded"
    /\ UNCHANGED <<build, truncVars, histVars, ctxVars, reqVars, srcVars, query>>

NextQuery == Expand

SpecQuery == InitQuery /\ [][NextQuery]_vars

----------------------------------------------------------------------------
(* Context assembler *)

\* A match is [id, content]: id is its rank in the retrieval result (the code
\* handles matches by object reference, and a truncated copy {...match,
\* content} stands for the match it was copied from).

DigitChars == <<"0", "1", "2", "3", "4", "5", "6", "7", "8", "9">>

RECURSIVE Decimal(_)
\* `${n}` for an integer n >= 0
Decimal(n) ==
    IF n < 10 THEN Rep(DigitChars[n + 1], 1)
    ELSE Concat(Decimal(n \div 10), Rep(DigitChars[(n % 10) + 1], 1))

\* `[${index + 1}] ${match.content}` for the match at 1-based position k
Numbered(k, content) ==
    Concat(Rep("[", 1), Concat(Decimal(k), Concat(Rep("]", 1),
           Concat(Rep(" ", 1), content))))

RECURSIVE JoinNumbered(_, _)
\* selected.map((match, index) => `[${index + 1}] ${match.content}`).join('\n\n'),
\* for the first k selected matches
JoinNumbered(selected, k) ==
    IF k = 0 THEN <<>>
    ELSE IF k = 1 THEN Numbered(1, selected[1].content)
    ELSE Concat(JoinNumbered(selected, k - 1),
                Concat(Rep("\n", 2), Numbered(k, selected[k].content)))

\* 'Kontekst:\n\nSpørsmål: '.length
CONTEXT_PREFIX_CHARS == 21

\* The safe budget with a floor of one minimum chunk
SafeAvailableClamped(availableTokens) ==
    Max(MIN_CHUNK_TOKENS, (19 * availableTokens) \div 20)

\* Math.floor(availableTokens * 0.95); the double product floors to the exact
\* floor(19 * a / 20) for every -300000 <= a <= 3000
SafeAvailable(availableTokens) == (19 * availableTokens) \div 20

RECURSIVE SelectLoopSkipping(_, _, _, _, _)
\* The for-loop with continue in place of the last break: a match that does not
\* fit is passed over and later matches are still tried.
SelectLoopSkipping(ms, k, usedTokens, selected, safeAvailableTokens) ==
    IF k > Len(ms) THEN selected
    ELSE
    LET match == ms[k]
        chunkTokens == estimateTokens(match.content)
        remainingTokens == safeAvailableTokens - usedTokens
    IN  IF chunkTokens <= remainingTokens
        THEN SelectLoopSkipping(ms, k + 1, usedTokens + chunkTokens,
                                Append(selected, match), safeAvailableTokens)
        ELSE IF remainingTokens >= MIN_CHUNK_TOKENS
        THEN Append(selected,
                    [match EXCEPT !.content =
                        truncateToTokens(match.content, remainingTokens)])
        ELSE SelectLoopSkipping(ms, k + 1, usedTokens, selected,
                                safeAvailableTokens)

RECURSIVE SelectLoopNoMinimum(_, _, _, _, _)
\* The for-loop without the test of MIN_CHUNK_TOKENS: a match that does not fit
\* is truncated to whatever is left.
SelectLoopNoMinimum(ms, k, usedTokens, selected, safeAvailableTokens) ==
    IF k > Len(ms) THEN selected
    ELSE
    LET match == ms[k]
        chunkTokens == estimateTokens(match.content)
        remainingTokens == safeAvailableTokens - usedTokens
    IN  IF chunkTokens <= remainingTokens
        THEN SelectLoopNoMinimum(ms, k + 1, usedTokens + chunkTokens,
                                 Append(selected, match), safeAvailableTokens)
        ELSE IF remainingTokens >= 0
        THEN Append(selected,
                    [match EXCEPT !.content =
                        truncateToTokens(match.content, remainingTokens)])
        ELSE selected

RECURSIVE SelectLoop(_, _, _, _, _)
\* The for-loop over matches from position k on: the selected matches.
SelectLoop(ms, k, usedTokens, selected, safeAvailableTokens) ==
    IF k > Len(ms) THEN selected
    ELSE
    LET match == ms[k]
        chunkTokens == estimateTokens(match.content)
        remainingTokens == safeAvailableTokens - usedTokens
    IN  IF chunkTokens <= remainingTokens
        THEN SelectLoop(ms, k + 1, usedTokens + chunkTokens,
                        Append(selected, match), safeAvailableTokens)
        ELSE IF remainingTokens >= MIN_CHUNK_TOKENS
        THEN Append(selected,
                    [match EXCEPT !.content =
                        truncateToTokens(match.content, remainingTokens)])
        ELSE selected

buildContextWithTokenManagement(ms, prompt, userQ, histTokens) ==
    LET systemPromptTokens == estimateTokens(prompt)
        userQueryTokens == estimateTokens(userQ)
        contextPrefixTokens == estimateTokens(Rep("x", CONTEXT_PREFIX_CHARS))
        reservedTokens ==
            systemPromptTokens + userQueryTokens + contextPrefixTokens + histTokens
        availableTokens == MAX_CONTEXT_TOKENS - reservedTokens
        safeAvailableTokens == SafeAvailable(availableTokens)
        selected == SelectLoop(ms, 1, 0, <<>>, safeAvailableTokens)
        context == JoinNumbered(selected, Len(selected))
    IN  [ context |-> context,
          selectedMatches |-> selected,
          totalTokens |-> systemPromptTokens + estimateTokens(context)
                          + userQueryTokens + contextPrefixTokens + histTokens ]

----------------------------------------------------------------------------
(* Inputs of the context assembler *)

MaxMatches == 3

\* system prompts of the two builds (2557 and 655 characters) and none
SYSTEM_PROMPT_CHARS == 2557
SYSTEM_PROMPT_CHARS_ROUTE == 655

PromptTexts ==
    {<<>>, Rep("p", SYSTEM_PROMPT_CHARS), Rep("p", SYSTEM_PROMPT_CHARS_ROUTE)}

QueryTexts == {Rep("q", 5), Rep("q", 4 * CHARS_PER_TOKEN)}

\* chunk contents of 1, 4, 60, 800 and MAX_CONTEXT_TOKENS tokens
ChunkTexts ==
    LET c == MAX_CONTEXT_TOKENS * CHARS_PER_TOKEN
    IN  { Rep("a", CHARS_PER_TOKEN),
          Rep("a", 4 * CHARS_PER_TOKEN),
          Rep("a", 60 * CHARS_PER_TOKEN),
          Rep("a", 800 * CHARS_PER_TOKEN),
          Rep("a", c) }

\* history token counts: none, and what leaves about 1500, 64, 10 and less
\* than nothing of the ceiling to an empty prompt and a 4-token query
HistoryTokenCounts ==
    { 0,
      MAX_CONTEXT_TOKENS - 1510,
      MAX_CONTEXT_TOKENS - 74,
      MAX_CONTEXT_TOKENS - 20,
      MAX_HISTORY_TOKENS }

\* the match list with contents t[1..n]
MatchListOf(t) == [i \in DOMAIN t |-> [id |-> i, content |-> t[i]]]

\* five matches of 800 tokens each
FiveLargeMatches ==
    MatchListOf([i \in 1..5 |-> Rep("a", 800 * CHARS_PER_TOKEN)])

----------------------------------------------------------------------------
(* The context assembler on its own *)

InitAssemble ==
    /\ build = "chatbot"
    /\ pc = "assemble"
    /\ \/ \E n \in 0..MaxMatches :
             \E t \in [1..n -> ChunkTexts] : matches = MatchListOf(t)
       \/ matches = FiveLargeMatches
    /\ systemPrompt \in PromptTexts
    /\ userQuery \in QueryTexts
    /\ historyTokens \in HistoryTokenCounts
    /\ assembled = NoResult
    /\ NoTruncation
    /\ NoHistory
    /\ NoRequest
    /\ NoSource
    /\ NoQuery

Assemble ==
    /\ pc = "assemble"
    /\ assembled' = buildContextWithTokenManagement(matches, systemPrompt,
                                                    userQuery, historyTokens)
    /\ pc' = "assembled"
    /\ UNCHANGED <<build, truncVars, srcVars, qryVars, histVars, matches, systemPrompt,
                   userQuery, historyTokens, reqVars>>

NextAssemble == Assemble

SpecAssemble == InitAssemble /\ [][NextAssemble]_vars

----------------------------------------------------------------------------
(* Source selector *)

\* A match handed to the selector is [id, source_url, title, content,
\* similarity]: similarity is the cosine similarity in hundredths (45 stands
\* for the double 0.45), title "" stands for a missing title.

\* the homepageUrls the handler passes
HomepageUrls ==
    {"https://vollenopplevelser.no", "https://vollenopplevelser.no/"}

\* The x for which the double (x + 5)/100 - x/100 is above the double 0.05
\* (for the other x in 0..95 the difference rounds to 0.05 or below it).
GapRoundsUp ==
    { 9, 12, 15, 18, 21, 22, 23, 29, 35, 41, 47, 48, 49, 50, 51, 57, 58, 59,
      60, 61, 62, 63, 69, 70, 71, 72, 73, 74, 75, 76, 82, 83, 84, 85, 86, 87,
      88, 94, 95 }

\* Math.abs(b.similarityScore - a.similarityScore) > 0.05 in doubles, for
\* scores x/100 and y/100 with x, y in 0..100
SimilarityDiffers(x, y) ==
    LET lo == IF x < y THEN x ELSE y
        hi == IF x < y THEN y ELSE x
    IN  hi - lo > 5 \/ (hi - lo = 5 /\ lo \in GapRoundsUp)

\* sortBySimilarity(a, b), up to a positive factor on the first branch
sortBySimilarity(a, b) ==
    IF SimilarityDiffers(a.similarityScore, b.similarityScore)
    THEN b.similarityScore - a.similarityScore
    ELSE b.chunkCount - a.chunkCount

RECURSIVE GroupByUrl(_, _, _)
\* The loop that fills sourceMap, from match k on; cands is the map as the
\* sequence of its values in insertion order.
GroupByUrl(ms, k, cands) ==
    IF k > Len(ms) THEN cands
    ELSE
    LET match == ms[k]
        url == match.source_url
        similarity == match.similarity
    IN  IF url = "" THEN GroupByUrl(ms, k + 1, cands)
        ELSE IF \A j \in DOMAIN cands : cands[j].url # url
        THEN GroupByUrl(ms, k + 1,
                 Append(cands, [url |-> url, title |-> match.title,
                                content |-> match.content,
                                similarityScore |-> similarity,
                                chunkCount |-> 1]))
        ELSE LET j == CHOOSE i \in DOMAIN cands : cands[i].url = url
                 existing == cands[j]
                 longer == Length(match.content) > Length(existing.content)
             IN  GroupByUrl(ms, k + 1,
                     [cands EXCEPT ![j] =
                         [url |-> url,
                          title |-> IF longer THEN match.title
                                    ELSE existing.title,
                          content |-> IF longer THEN match.content
                                      ELSE existing.content,
                          similarityScore |->
                              Max(existing.similarityScore, similarity),
                          chunkCount |-> existing.chunkCount + 1]])

RECURSIVE Reverse(_)
Reverse(arr) ==
    IF arr = <<>> THEN <<>> ELSE Append(Reverse(Tail(arr)), Head(arr))

RECURSIVE CountRun(_, _, _)
\* Array.prototype.sort, the run at the start of the array: the number of
\* elements of the ascending (or strictly descending) run, idx being the
\* 1-based position of the next element to test.
CountRun(arr, isDescending, idx) ==
    IF idx > Len(arr) THEN Len(arr)
    ELSE LET order == sortBySimilarity(arr[idx], arr[idx - 1])
         IN  IF (isDescending /\ order >= 0) \/ (~isDescending /\ order < 0)
             THEN idx - 1
             ELSE CountRun(arr, isDescending, idx + 1)

RECURSIVE BinarySearch(_, _, _, _)
\* Array.prototype.sort, binary insertion: where the pivot goes among the
\* sorted elements at 0-based positions left..right-1
BinarySearch(arr, pivot, left, right) ==
    IF left >= right THEN left
    ELSE LET mid == left + ((right - left) \div 2)
         IN  IF sortBySimilarity(pivot, arr[mid + 1]) < 0
             THEN BinarySearch(arr, pivot, left, mid)
             ELSE BinarySearch(arr, pivot, mid + 1, right)

RECURSIVE BinaryInsertionSort(_, _)
\* Array.prototype.sort, binary insertion of the elements from 0-based
\* position start on into the sorted elements before them
BinaryInsertionSort(arr, start) ==
    IF start >= Len(arr) THEN arr
    ELSE LET pivot == arr[start + 1]
             left == BinarySearch(arr, pivot, 0, start)
         IN  BinaryInsertionSort(
                 SubSeq(arr, 1, left) \o <<pivot>> \o SubSeq(arr, left + 1, start)
                     \o SubSeq(arr, start + 2, Len(arr)),
                 start + 1)

\* arr.sort(sortBySimilarity) as the engine sorts an array of fewer than 64
\* elements: the run at the start (reversed when descending), then binary
\* insertion of the rest.  The comparator is not transitive, so the result
\* depends on this order of comparisons.
sort(arr) ==
    IF Len(arr) < 2 THEN arr
    ELSE LET isDescending == sortBySimilarity(arr[2], arr[1]) < 0
             run == CountRun(arr, isDescending, 3)
             made == IF isDescending
                     THEN Reverse(SubSeq(arr, 1, run))
                              \o SubSeq(arr, run + 1, Len(arr))
                     ELSE arr
         IN  BinaryInsertionSort(made, run)

\* the Source made from a candidate
SourceOf(best) ==
    [found |-> TRUE, url |-> best.url, title |-> best.title,
     content |-> best.content]

\* the candidates whose URL is (wantHomepage) or is not among homepageUrls
PartitionOf(cands, homepageUrls, wantHomepage) ==
    LET Wanted(c) == (c.url \in homepageUrls) = wantHomepage
    IN  SelectSeq(cands, Wanted)

\* findMostRelevantSource with the specific pages not preferred: all the
\* candidates are ranked together
findMostRelevantSourceUnpartitioned(selectedMatches, homepageUrls) ==
    IF Len(selectedMatches) = 0 THEN NullSource
    ELSE LET cands == GroupByUrl(selectedMatches, 1, <<>>)
         IN  IF cands # <<>> THEN SourceOf(sort(cands)[1])
             ELSE [found |-> TRUE, url |-> "",
                   title |-> selectedMatches[1].title,
                   content |-> selectedMatches[1].content]

\* findMostRelevantSource with the candidate of a URL keeping the content of
\* its first match
findMostRelevantSourceFirstContent(selectedMatches, homepageUrls) ==
    IF Len(selectedMatches) = 0 THEN NullSource
    ELSE LET cands == GroupByUrl(selectedMatches, 1, <<>>)
             firstOf(u) ==
                 selectedMatches[CHOOSE k \in DOMAIN selectedMatches :
                     /\ selectedMatches[k].source_url = u
                     /\ \A j \in 1..(k - 1) :
                           selectedMatches[j].source_url # u]
             specificSources == PartitionOf(cands, homepageUrls, FALSE)
             homepageSources == PartitionOf(cands, homepageUrls, TRUE)
             best == IF specificSources # <<>> THEN sort(specificSources)[1]
                     ELSE sort(homepageSources)[1]
         IN  IF cands # <<>>
             THEN [found |-> TRUE, url |-> best.url,
                   title |-> firstOf(best.url).title,
                   content |-> firstOf(best.url).content]
             ELSE [found |-> TRUE, url |-> "",
                   title |-> selectedMatches[1].title,
                   content |-> selectedMatches[1].content]

findMostRelevantSource(selectedMatches, homepageUrls) ==
    IF Len(selectedMatches) = 0 THEN NullSource
    ELSE LET cands == GroupByUrl(selectedMatches, 1, <<>>)
             specificSources == PartitionOf(cands, homepageUrls, FALSE)
             homepageSources == PartitionOf(cands, homepageUrls, TRUE)
         IN  IF specificSources # <<>>
             THEN SourceOf(sort(specificSources)[1])
             ELSE IF homepageSources # <<>>
             THEN SourceOf(sort(homepageSources)[1])
             ELSE [found |-> TRUE, url |-> selectedMatches[1].source_url,
                   title |-> selectedMatches[1].title,
                   content |-> selectedMatches[1].content]

----------------------------------------------------------------------------
(* The source selector on its own *)

MaxSourceMatches == 3

\* no URL, the two homepage URLs and two specific pages
SourceUrls ==
    { "", "https://vollenopplevelser.no", "https://vollenopplevelser.no/",
      "https://vollenopplevelser.no/a", "https://vollenopplevelser.no/b" }

\* 0.4 and 0.45 are within the tolerance of each other, 0.9 is not
Similarities == {40, 45, 90}

\* a short chunk without a title and a longer one with a title
SourceChunks ==
    { [content |-> Rep("a", 4), title |-> ""],
      [content |-> Rep("b", 8), title |-> "Title"] }

\* the matches with URLs u[1..n], similarities s[1..n] and chunks c[1..n]
SourceMatchesOf(u, s, c) ==
    [i \in DOMAIN u |->
        [id |-> i, source_url |-> u[i], title |-> c[i].title,
         content |-> c[i].content, similarity |-> s[i]]]

InitSource ==
    /\ build = "chatbot"
    /\ pc = "select"
    /\ \E n \in 0..MaxSourceMatches :
          \E u \in [1..n -> SourceUrls], s \in [1..n -> Similarities],
             c \in [1..n -> SourceChunks] :
              usedMatches = SourceMatchesOf(u, s, c)
    /\ bestSource = NullSource
    /\ NoTruncation
    /\ NoHistory
    /\ NoContext
    /\ NoRequest
    /\ NoQuery

SelectSource ==
    /\ pc = "select"
    /\ bestSource' = findMostRelevantSource(usedMatches, HomepageUrls)
    /\ pc' = "selected"
    /\ UNCHANGED <<build, truncVars, histVars, ctxVars, reqVars, usedMatches,
                   qryVars>>

NextSource == SelectSource

SpecSource == InitSource /\ [][NextSource]_vars

----------------------------------------------------------------------------
(* The source selector on several pages of one kind *)

MaxRankMatches == 3

\* three specific pages and the homepage
RankUrls ==
    { "https://vollenopplevelser.no/a", "https://vollenopplevelser.no/b",
      "https://vollenopplevelser.no/c", "https://vollenopplevelser.no" }

\* 0.4, 0.45 and 0.5: each within the tolerance of the next, the first and the
\* last 0.1 apart; 0.6 is within the tolerance of none
RankSimilarities == {40, 45, 50, 60}

InitRank ==
    /\ build = "chatbot"
    /\ pc = "select"
    /\ \E n \in 0..MaxRankMatches :
          \E u \in [1..n -> RankUrls], s \in [1..n -> RankSimilarities] :
              usedMatches =
                  SourceMatchesOf(u, s, [i \in 1..n |->
                                           [content |-> Rep("a", 4),
                                            title |-> "Title"]])
    /\ bestSource = NullSource
    /\ NoTruncation
    /\ NoHistory
    /\ NoContext
    /\ NoRequest
    /\ NoQuery

NextRank == SelectSource

SpecRank == InitRank /\ [][NextRank]_vars

----------------------------------------------------------------------------
(* Rate limiter *)

RATE_LIMIT_REQUESTS == 20
RATE_LIMIT_WINDOW_MS == 60 * 1000

\* checkRateLimit(ip) called at time t; cleanup is Math.random() < 0.001.
\* Gives the store after the call and the record the call returns.
\* checkRateLimit refusing only when record.count > RATE_LIMIT_REQUESTS
checkRateLimitOffByOne(store, ip, t, cleanup) ==
    LET record == store[ip]
        swept ==
            IF cleanup
            THEN [k \in IPs |->
                    IF store[k].present /\ store[k].resetAt < t
                    THEN NoRecord ELSE store[k]]
            ELSE store
        resetAt == t + RATE_LIMIT_WINDOW_MS
    IN  IF ~record.present \/ record.resetAt < t
        THEN [ store |-> [swept EXCEPT ![ip] =
                            [present |-> TRUE, count |-> 1, resetAt |-> resetAt]],
               result |-> [allowed |-> TRUE,
                           remaining |-> RATE_LIMIT_REQUESTS - 1,
                           resetAt |-> resetAt] ]
        ELSE IF record.count > RATE_LIMIT_REQUESTS
        THEN [ store |-> swept,
               result |-> [allowed |-> FALSE, remaining |-> 0,
                           resetAt |-> record.resetAt] ]
        ELSE [ store |-> [swept EXCEPT ![ip] =
                            [record EXCEPT !.count = @ + 1]],
               result |-> [allowed |-> TRUE,
                           remaining |-> RATE_LIMIT_REQUESTS - (record.count + 1),
                           resetAt |-> record.resetAt] ]

checkRateLimit(store, ip, t, cleanup) ==
    LET record == store[ip]
        swept ==
            IF cleanup
            THEN [k \in IPs |->
                    IF store[k].present /\ store[k].resetAt < t
                    THEN NoRecord ELSE store[k]]
            ELSE store
        resetAt == t + RATE_LIMIT_WINDOW_MS
    IN  IF ~record.present \/ record.resetAt < t
        THEN [ store |-> [swept EXCEPT ![ip] =
                            [present |-> TRUE, count |-> 1, resetAt |-> resetAt]],
               result |-> [allowed |-> TRUE,
                           remaining |-> RATE_LIMIT_REQUESTS - 1,
                           resetAt |-> resetAt] ]
        ELSE IF record.count >= RATE_LIMIT_REQUESTS
        THEN [ store |-> swept,
               result |-> [allowed |-> FALSE, remaining |-> 0,
                           resetAt |-> record.resetAt] ]
        ELSE [ store |-> [swept EXCEPT ![ip] =
                            [record EXCEPT !.count = @ + 1]],
               result |-> [allowed |-> TRUE,
                           remaining |-> RATE_LIMIT_REQUESTS - (record.count + 1),
                           resetAt |-> record.resetAt] ]

----------------------------------------------------------------------------
(* The rate limiter on its own: requests of two clients as time goes by *)

MaxWindows == 2

\* the clock runs until MaxWindows windows and their last instants have passed
LastInstant == MaxWindows * (RATE_LIMIT_WINDOW_MS + 1)

\* time goes by half a window, or a window and a millisecond
Advances == {RATE_LIMIT_WINDOW_MS \div 2, RATE_LIMIT_WINDOW_MS + 1}

\* The window of a client after a request of it was allowed at time t: the
\* request opens a window when the client has none or t is past the end of
\* its window, and is one more request of the window otherwise.
WindowAfter(w, t) ==
    IF ~w.present \/ t > w.openedAt + RATE_LIMIT_WINDOW_MS
    THEN [present |-> TRUE, openedAt |-> t, allowed |-> 1]
    ELSE [w EXCEPT !.allowed = @ + 1]

InitLimit ==
    /\ build \in Builds
    /\ pc = "serving"
    /\ NoTruncation
    /\ NoHistory
    /\ NoContext
    /\ NoRequest
    /\ NoSource
    /\ NoQuery

LimitUnchanged ==
    UNCHANGED <<build, pc, truncVars, histVars, ctxVars, srcVars, qryVars, env,
                message, embedResult, rpcResult, calls, reached, response,
                sources, chatStream, readPos, out, perfVars, cancelVars,
                clientVars, uiVars>>

\* a request of client ip arrives and POST calls checkRateLimit
CheckLimit ==
    /\ pc = "serving"
    /\ \E ip \in IPs, cleanup \in BOOLEAN :
         LET rl == checkRateLimit(rateLimitStore, ip, now, cleanup)
         IN  /\ clientIP' = ip
             /\ rateLimitStore' = rl.store
             /\ rateLimit' = rl.result
             /\ windows' = IF rl.result.allowed
                           THEN [windows EXCEPT ![ip] = WindowAfter(@, now)]
                           ELSE windows
             /\ plainStore' = checkRateLimit(plainStore, ip, now, FALSE).store
    /\ UNCHANGED now
    /\ LimitUnchanged

\* time goes by
Tick ==
    /\ pc = "serving"
    /\ \E d \in Advances :
         /\ now + d <= LastInstant
         /\ now' = now + d
    /\ UNCHANGED <<clientIP, rateLimitStore, rateLimit, limVars>>
    /\ LimitUnchanged

NextLimit ==
    \/ CheckLimit
    \/ Tick

SpecLimit == InitLimit /\ [][NextLimit]_vars

----------------------------------------------------------------------------
(* The POST handler: one request from its arrival to the end of its response *)

MATCH_COUNT == 12
MATCH_COUNT_ROUTE == 1

MatchCount(b) == IF b = "route" THEN MATCH_COUNT_ROUTE ELSE MATCH_COUNT

\* the systemPrompt literal of the build, by its length
SystemPrompt(b) ==
    Rep("p", IF b = "route" THEN SYSTEM_PROMPT_CHARS_ROUTE
             ELSE SYSTEM_PROMPT_CHARS)

\* trimHistory(history) of the build
TrimFor(b, h) == IF b = "route" THEN trimHistoryRoute(h) ELSE trimHistory(h)

\* NextResponse.json({error: ...}, {status})
JsonError(status, err) ==
    [kind |-> "json", status |-> status, error |-> err, answer |-> "",
     sources |-> <<>>]

\* NextResponse.json({answer: 'Beklager, jeg fant ingen relevant informasjon
\* ...', sources: []})
FallbackAnswer ==
    [kind |-> "json", status |-> 200, error |-> "",
     answer |-> "Beklager, jeg fant ingen relevant informasjon", sources |-> <<>>]

\* new NextResponse(stream, {headers: {'Content-Type': 'text/event-stream'}})
StreamResponse ==
    [kind |-> "stream", status |-> 200, error |-> "", answer |-> "",
     sources |-> <<>>]

\* chunk.choices[0]?.delta?.content of chunk k of the generation stream, when
\* it has content: a stream worded "unsure" begins with the chunks 'Jeg vet '
\* and 'ikke.', every other chunk k reads 't<k>'
ChunkContent(k) ==
    IF chatStream.wording = "unsure" /\ k = 1 THEN "Jeg vet "
    ELSE IF chatStream.wording = "unsure" /\ k = 2 THEN "ikke."
    ELSE "t" \o ToString(k)

\* {type: 'token', data: content} for chunk k
TokenEvent(k) ==
    [type |-> "token", index |-> k, data |-> ChunkContent(k), sources |-> <<>>]
SourcesEvent(srcs) ==
    [type |-> "sources", index |-> 0, data |-> "", sources |-> srcs]
DoneEvent == [type |-> "done", index |-> 0, data |-> "", sources |-> <<>>]
ErrorEvent == [type |-> "error", index |-> 0, data |-> "", sources |-> <<>>]

\* ConfigComplete with getSupabaseClient() returning a client whatever the
\* environment holds
ConfigCompleteOpenAIOnly == env.openaiKey

\* getOpenAIClient() and getSupabaseClient() both return a client
ConfigComplete == env.openaiKey /\ env.supabaseUrl /\ env.supabaseKey

\* From the arrival of the request to its first suspension: the clients and
\* the rate limit check, which writes the store; the handler then waits for
\* the body at `await request.json()`.
Receive ==
    /\ pc = "received"
    /\ \E cleanup \in BOOLEAN :
         LET rl == checkRateLimit(rateLimitStore, clientIP, now, cleanup)
         IN  IF ~ConfigComplete
             THEN /\ response' = JsonError(500, "Internal server error")
                  /\ pc' = "responded"
                  /\ UNCHANGED <<rateLimitStore, rateLimit>>
             ELSE /\ rateLimitStore' = rl.store
                  /\ rateLimit' = rl.result
                  /\ IF ~rl.result.allowed
                     THEN /\ response' = JsonError(429, "Too many requests")
                          /\ pc' = "responded"
                     ELSE /\ pc' = "parsing"
                          /\ UNCHANGED response
    /\ UNCHANGED <<build, limVars, uiVars, truncVars, srcVars, histVars, ctxVars, env, clientIP,
                   now, qryVars, calls, reached,
                   message, embedResult, rpcResult, sources, chatStream,
                   readPos, out, perfVars, cancelVars, clientVars>>

\* request.json() settles: the body does not parse, the message test fails,
\* or the handler goes on to the embedding call. The chatbot build embeds
\* buildContextualQuery(message, history); the route build has no such
\* function and embeds the message itself.
BodyArrives ==
    /\ pc = "parsing"
    /\ IF message.kind = "badjson"
       THEN /\ response' = JsonError(500, "Internal server error")
            /\ pc' = "responded"
            /\ UNCHANGED <<calls, reached, qryVars>>
       ELSE IF message.kind # "string" \/ message.value = <<>>
       THEN /\ response' = JsonError(400, "Message is required")
            /\ pc' = "responded"
            /\ UNCHANGED <<calls, reached, qryVars>>
       ELSE /\ IF build = "chatbot"
               THEN /\ query' = message.value
                    /\ contextualQuery' =
                           buildContextualQuery(message.value, history)
               ELSE UNCHANGED qryVars
            /\ calls' = [calls EXCEPT !.embed = @ + 1]
            /\ reached' = reached \cup {"embed"}
            /\ pc' = "embedding"
            /\ UNCHANGED response
    /\ UNCHANGED <<build, limVars, uiVars, truncVars, srcVars, histVars, ctxVars, env, clientIP,
                   now, rateLimitStore, rateLimit,
                   message, embedResult, rpcResult, sources, chatStream,
                   readPos, out, perfVars, cancelVars, clientVars>>

\* EmbedReturns with the failure of the embedding call swallowed: the RPC is
\* called all the same.
EmbedReturnsSwallowed ==
    /\ pc = "embedding"
    /\ clock' = clock + latency.embed
    /\ \E ok \in BOOLEAN :
         /\ embedResult' = IF ok THEN "ok" ELSE "failed"
         /\ embeddingTime' = IF build = "chatbot" THEN clock' - clock ELSE 0
         /\ calls' = [calls EXCEPT !.rpc = @ + 1]
         /\ reached' = reached \cup {"retrieve"}
         /\ pc' = "retrieving"
         /\ UNCHANGED response
    /\ UNCHANGED <<build, limVars, uiVars, truncVars, srcVars, qryVars, histVars, ctxVars, env,
                   clientIP, now, rateLimitStore, rateLimit, message, rpcResult,
                   sources, chatStream, readPos, out, latency, supabaseTime,
                   chatStart, chatTime, firstTokenSent, headers, cancelVars,
                   clientVars>>

\* openai.embeddings.create resolves or throws; on success the handler notes
\* the elapsed time (chatbot build) and calls the RPC.
EmbedReturns ==
    /\ pc = "embedding"
    /\ clock' = clock + latency.embed
    /\ \E ok \in BOOLEAN :
         IF ok
         THEN /\ embedResult' = "ok"
              /\ embeddingTime' = IF build = "chatbot" THEN clock' - clock ELSE 0
              /\ calls' = [calls EXCEPT !.rpc = @ + 1]
              /\ reached' = reached \cup {"retrieve"}
              /\ pc' = "retrieving"
              /\ UNCHANGED response
         ELSE /\ embedResult' = "failed"
              /\ response' = JsonError(500, "Internal server error")
              /\ pc' = "responded"
              /\ UNCHANGED <<calls, reached, embeddingTime>>
    /\ UNCHANGED <<build, limVars, uiVars, truncVars, srcVars, qryVars, histVars, ctxVars, env,
                   clientIP, now, rateLimitStore, rateLimit, message, rpcResult,
                   sources, chatStream, readPos, out, latency, supabaseTime,
                   chatStart, chatTime, firstTokenSent, headers, cancelVars,
                   clientVars>>

\* What supabase.rpc('match_documents') can come back with: it throws, it
\* resolves with an error, with null data, or with at most MATCH_COUNT rows.
RequestMatchLists ==
    LET row(i, u, s, c) ==
            [id |-> i, source_url |-> u, title |-> "Title", content |-> c,
             similarity |-> s]
    IN  { <<>>,
          <<row(1, "https://vollenopplevelser.no/a", 45,
                Rep("a", 60 * CHARS_PER_TOKEN))>>,
          <<row(1, "https://vollenopplevelser.no", 90,
                Rep("a", 800 * CHARS_PER_TOKEN)),
            row(2, "https://vollenopplevelser.no/a", 40,
                Rep("a", MAX_CONTEXT_TOKENS * CHARS_PER_TOKEN))>> }

RpcOutcomes(b) ==
    {[state |-> st, data |-> <<>>] : st \in {"threw", "error", "null"}}
    \cup {[state |-> "rows", data |-> m] :
             m \in {x \in RequestMatchLists : Len(x) <= MatchCount(b)}}

\* !matches || matches.length === 0, with only the null test
NoMatchesNullOnly(r) == r.state = "null"

\* !matches || matches.length === 0
NoMatches(r) == r.state = "null" \/ Len(r.data) = 0

\* The RPC returns; with matches the handler trims the history, assembles the
\* context, prepares the sources and calls the chat model.
RetrieveReturns ==
    /\ pc = "retrieving"
    /\ clock' = clock + latency.rpc
    /\ \E r \in RpcOutcomes(build) :
         /\ rpcResult' = r
         /\ supabaseTime' = IF build = "chatbot" /\ r.state # "threw"
                            THEN clock' - clock ELSE 0
         /\ IF r.state = "threw"
            THEN /\ response' = JsonError(500, "Internal server error")
                 /\ pc' = "responded"
                 /\ UNCHANGED <<histVars, ctxVars, calls, reached, sources,
                               srcVars, chatStart>>
            ELSE IF r.state = "error"
            THEN /\ response' = JsonError(500, "Failed to retrieve documents")
                 /\ pc' = "responded"
                 /\ UNCHANGED <<histVars, ctxVars, calls, reached, sources,
                               srcVars, chatStart>>
            ELSE IF NoMatches(r)
            THEN /\ response' = FallbackAnswer
                 /\ pc' = "responded"
                 /\ UNCHANGED <<histVars, ctxVars, calls, reached, sources,
                               srcVars, chatStart>>
            ELSE LET trimmed == TrimFor(build, history)
                     tokens == SumTokens(trimmed)
                     built == buildContextWithTokenManagement(
                                  r.data, systemPrompt, message.value, tokens)
                     best == findMostRelevantSource(built.selectedMatches,
                                                    HomepageUrls)
                 IN  /\ trimmedHistory' = trimmed
                     /\ historyTokens' = tokens
                     /\ matches' = r.data
                     /\ userQuery' = message.value
                     /\ assembled' = built
                     \* route: selectedMatches.slice(0, 1); chatbot: the best
                     \* source, if any (its event is commented out)
                     /\ sources' = IF build = "route"
                                   THEN SubSeq(built.selectedMatches, 1,
                                               IF Len(built.selectedMatches) > 0
                                               THEN 1 ELSE 0)
                                   ELSE IF best.found THEN <<best>> ELSE <<>>
                     /\ IF build = "route" THEN UNCHANGED srcVars
                        ELSE /\ usedMatches' = built.selectedMatches
                             /\ bestSource' = best
                     /\ chatStart' = IF build = "chatbot" THEN clock' ELSE 0
                     /\ calls' = [calls EXCEPT !.chat = @ + 1]
                     /\ reached' = reached \cup {"trim", "assemble", "generate"}
                     /\ pc' = "generating"
                     /\ UNCHANGED <<history, systemPrompt, response>>
    /\ UNCHANGED <<build, limVars, uiVars, truncVars, qryVars, env, clientIP, now, rateLimitStore,
                   rateLimit, message, embedResult, chatStream, readPos, out,
                   latency, embeddingTime, chatTime, firstTokenSent, headers,
                   cancelVars, clientVars>>

MaxChunks == 3

\* what the chunks with content of a generation stream say
Wordings == {"plain", "unsure"}

\* A generation stream: chunks with content ("token") or without ("empty"),
\* then the end of the stream or a failure of the iteration.
ChatStreams ==
    UNION { { [items |-> it, ending |-> e, wording |-> w] :
                it \in [1..n -> {"token", "empty"}], e \in {"end", "fail"},
                w \in Wordings } :
            n \in 0..MaxChunks }

\* The X-Performance headers, built when the handler returns the response: the
\* stream's start() has run up to its first await by then, and no further.
PerformanceHeaders ==
    IF build = "chatbot"
    THEN [present |-> TRUE, embedding |-> embeddingTime,
          supabase |-> supabaseTime, chat |-> chatTime,
          ttfb |-> embeddingTime + supabaseTime + chatTime]
    ELSE NoHeaders

\* openai.chat.completions.create throws, or resolves with a stream: the
\* handler makes the response stream, whose start() begins to iterate the
\* generation stream, and returns the streaming response.
GenerateReturns ==
    /\ pc = "generating"
    /\ clock' = clock + latency.chat
    /\ \/ /\ response' = JsonError(500, "Internal server error")
          /\ pc' = "responded"
          /\ UNCHANGED <<chatStream, headers>>
       \/ /\ \E st \in ChatStreams : chatStream' = st
          /\ response' = StreamResponse
          /\ headers' = PerformanceHeaders
          /\ pc' = "streaming"
    /\ UNCHANGED <<build, limVars, uiVars, truncVars, srcVars, qryVars, histVars, ctxVars, env,
                   clientIP, now, rateLimitStore, rateLimit, message,
                   embedResult, rpcResult, calls, reached, sources, readPos,
                   out, latency, embeddingTime, supabaseTime, chatStart,
                   chatTime, firstTokenSent, cancelVars, clientVars>>

StreamUnchanged ==
    UNCHANGED <<build, limVars, uiVars, truncVars, srcVars, qryVars, histVars, ctxVars, env,
                clientIP, now, rateLimitStore, rateLimit, message, embedResult,
                rpcResult, calls, reached, response, sources, chatStream,
                latency, embeddingTime, supabaseTime, chatStart, headers,
                cancelled, clientVars>>

\* if (!firstTokenSent) { chatTime = Date.now() - chatStart; ... } (chatbot)
MeasureChatTime ==
    IF build = "chatbot" /\ ~firstTokenSent
    THEN chatTime' = clock' - chatStart
    ELSE UNCHANGED chatTime

\* ForwardToken with the tokens held back: the chunk is read and nothing is
\* enqueued
ForwardTokenBuffered ==
    /\ pc = "streaming"
    /\ readPos < Len(chatStream.items)
    /\ chatStream.items[readPos + 1] = "token"
    /\ clock' = clock + 1
    /\ readPos' = readPos + 1
    /\ MeasureChatTime
    /\ firstTokenSent' = (build = "chatbot")
    /\ UNCHANGED <<pc, out, readAfterCancel>>
    /\ StreamUnchanged

\* for await: a chunk with content arrives and is enqueued as a token event.
\* On a cancelled stream enqueue throws, the catch block's enqueue throws
\* again, and start() ends without reading on.
ForwardToken ==
    /\ pc = "streaming"
    /\ readPos < Len(chatStream.items)
    /\ chatStream.items[readPos + 1] = "token"
    /\ clock' = clock + 1
    /\ readPos' = readPos + 1
    /\ MeasureChatTime
    /\ firstTokenSent' = (build = "chatbot")
    /\ IF cancelled
       THEN /\ readAfterCancel' = readAfterCancel + 1
            /\ pc' = "aborted"
            /\ UNCHANGED out
       ELSE /\ out' = Append(out, TokenEvent(readPos + 1))
            /\ UNCHANGED <<pc, readAfterCancel>>
    /\ StreamUnchanged

\* for await: a chunk without content arrives and is passed over
SkipChunk ==
    /\ pc = "streaming"
    /\ readPos < Len(chatStream.items)
    /\ chatStream.items[readPos + 1] = "empty"
    /\ clock' = clock + 1
    /\ readPos' = readPos + 1
    /\ UNCHANGED <<pc, out, chatTime, firstTokenSent, readAfterCancel>>
    /\ StreamUnchanged

\* the generation stream ends: (route: the sources event,) the done signal,
\* controller.close(); on a cancelled stream the first enqueue throws
StreamEnds ==
    /\ pc = "streaming"
    /\ readPos = Len(chatStream.items)
    /\ chatStream.ending = "end"
    /\ clock' = clock + 1
    /\ MeasureChatTime
    /\ IF cancelled
       THEN pc' = "aborted" /\ UNCHANGED out
       ELSE /\ out' = (IF build = "route"
                       THEN Append(out, SourcesEvent(sources)) ELSE out)
                      \o <<DoneEvent>>
            /\ pc' = "closed"
    /\ UNCHANGED <<readPos, firstTokenSent, readAfterCancel>>
    /\ StreamUnchanged

\* StreamFails falling through to the done signal after the error event
StreamFailsThenDone ==
    /\ pc = "streaming"
    /\ readPos = Len(chatStream.items)
    /\ chatStream.ending = "fail"
    /\ clock' = clock + 1
    /\ IF cancelled
       THEN pc' = "aborted" /\ UNCHANGED out
       ELSE pc' = "closed" /\ out' = out \o <<ErrorEvent, DoneEvent>>
    /\ UNCHANGED <<readPos, chatTime, firstTokenSent, readAfterCancel>>
    /\ StreamUnchanged

\* the iteration throws: the error event, controller.close(); on a cancelled
\* stream the enqueue of the error event throws
StreamFails ==
    /\ pc = "streaming"
    /\ readPos = Len(chatStream.items)
    /\ chatStream.ending = "fail"
    /\ clock' = clock + 1
    /\ IF cancelled
       THEN pc' = "aborted" /\ UNCHANGED out
       ELSE pc' = "closed" /\ out' = Append(out, ErrorEvent)
    /\ UNCHANGED <<readPos, chatTime, firstTokenSent, readAfterCancel>>
    /\ StreamUnchanged

\* The consumer of the response goes away while the handler is streaming: the
\* response stream is cancelled.  The stream was made with a start() only, so
\* nothing of the handler runs at this moment.
Disconnect ==
    /\ pc = "streaming"
    /\ ~cancelled
    /\ cancelled' = TRUE
    /\ UNCHANGED <<build, limVars, uiVars, pc, truncVars, srcVars, qryVars, histVars, ctxVars, env,
                   clientIP, now, rateLimitStore, rateLimit, message,
                   embedResult, rpcResult, calls, reached, response, sources,
                   chatStream, readPos, out, perfVars, readAfterCancel,
                   clientVars>>

----------------------------------------------------------------------------
(* The consumer of the response stream (scripts/test.ts testQuestion and the
   widget's sendMessage): it splits what it has received at blank lines, keeps
   the unfinished rest in its buffer and handles the whole frames in order. *)

Clients == {"script", "widget"}

RECURSIVE ProcessFramesStrict(_, _, _, _, _, _)
\* ProcessFrames with an unparseable payload ending the read loop
ProcessFramesStrict(frames, from, to, bad, who, st) ==
    IF from > to THEN st
    ELSE IF from = bad THEN [st EXCEPT !.status = "ERROR", !.done = TRUE]
    ELSE LET parsed == frames[from]
         IN  IF parsed.type = "done" THEN st
             ELSE IF parsed.type = "token"
             THEN ProcessFramesStrict(frames, from + 1, to, bad, who,
                      [st EXCEPT !.output = Append(@, parsed.data)])
             ELSE IF parsed.type = "sources" /\ ~st.sourcesReceived
             THEN ProcessFramesStrict(frames, from + 1, to, bad, who,
                      [st EXCEPT !.sourcesReceived = TRUE])
             ELSE IF parsed.type = "error" /\ who = "script"
             THEN ProcessFramesStrict(frames, from + 1, to, bad, who,
                      [st EXCEPT !.status = "ERROR"])
             ELSE ProcessFramesStrict(frames, from + 1, to, bad, who, st)

RECURSIVE ProcessFrames(_, _, _, _, _, _)
\* for (const line of lines): the frames from..to of the response, of which
\* frame bad is unparseable, handled by consumer who in state st
ProcessFrames(frames, from, to, bad, who, st) ==
    IF from > to THEN st
    \* JSON.parse throws, the catch block logs it
    ELSE IF from = bad THEN ProcessFrames(frames, from + 1, to, bad, who, st)
    ELSE LET parsed == frames[from]
         IN  \* data === '[DONE]': break
             IF parsed.type = "done" THEN st
             ELSE IF parsed.type = "token"
             THEN ProcessFrames(frames, from + 1, to, bad, who,
                      [st EXCEPT !.output = Append(@, parsed.data)])
             ELSE IF parsed.type = "sources" /\ ~st.sourcesReceived
             THEN ProcessFrames(frames, from + 1, to, bad, who,
                      [st EXCEPT !.sourcesReceived = TRUE])
             \* script: status = 'ERROR'; widget: throw new Error(parsed.data),
             \* caught by the catch block around JSON.parse
             ELSE IF parsed.type = "error" /\ who = "script"
             THEN ProcessFrames(frames, from + 1, to, bad, who,
                      [st EXCEPT !.status = "ERROR"])
             ELSE ProcessFrames(frames, from + 1, to, bad, who, st)

ClientUnchanged ==
    UNCHANGED <<build, limVars, uiVars, pc, truncVars, srcVars, qryVars, histVars, ctxVars, env,
                clientIP, now, rateLimitStore, rateLimit, message, embedResult,
                rpcResult, calls, reached, response, sources, chatStream,
                readPos, out, perfVars, cancelVars, client, garbled>>

\* reader.read() resolves with more of the response: the frames up to k are
\* now whole and, with rest, the start of frame k + 1 stays in the buffer
ClientRead ==
    /\ response.kind = "stream"
    /\ ~cancelled
    /\ ~clientState.done
    /\ \E k \in delivered..Len(out), rest \in BOOLEAN :
         /\ rest => k < Len(out)
         /\ k > delivered \/ (rest /\ ~partial)
         /\ clientState' = ProcessFrames(out, delivered + 1, k, garbled, client,
                                         clientState)
         /\ delivered' = k
         /\ partial' = rest
    /\ ClientUnchanged

\* isFallbackMessage(message) of the test script, the message given by its
\* pieces in order: /beklager.*jeg fant ingen relevant informasjon/i matches
\* the handler's fallback answer, /jeg vet ikke/i matches 'Jeg vet ' followed
\* at once by 'ikke.'; no text of the model matches
\* /kontakt.*vollen opplevelser/i
isFallbackMessage(msg) ==
    \/ \E i \in DOMAIN msg : msg[i] = FallbackAnswer.answer
    \/ \E i \in 1..(Len(msg) - 1) :
         msg[i] = "Jeg vet " /\ msg[i + 1] = "ikke."

\* what follows the reading of the response in consumer who: the script tests
\* its output for a fallback message, the widget does not
AfterResponse(who, st) ==
    [st EXCEPT !.status = IF who = "script" /\ isFallbackMessage(st.output)
                          THEN "FALLBACK" ELSE @,
               !.done = TRUE]

\* reader.read() resolves with done: the stream is closed and all of it has
\* been received; the loop ends and the consumer finishes
ClientClose ==
    /\ response.kind = "stream"
    /\ pc = "closed"
    /\ ~cancelled
    /\ delivered = Len(out)
    /\ ~clientState.done
    /\ clientState' = AfterResponse(client, clientState)
    /\ UNCHANGED <<delivered, partial>>
    /\ ClientUnchanged

\* The response is no event stream. `!response.ok`: the script returns with
\* status 'ERROR' and the widget adds a message of type 'error' (status
\* "ERROR" stands for it). Otherwise the consumer takes data.answer as its
\* output and finishes.
ClientAnswer ==
    /\ response.kind = "json"
    /\ pc = "responded"
    /\ ~clientState.done
    /\ clientState' =
         IF response.status # 200
         THEN [clientState EXCEPT !.status = "ERROR", !.done = TRUE]
         ELSE AfterResponse(client,
                  [clientState EXCEPT !.output = <<response.answer>>])
    /\ UNCHANGED <<delivered, partial>>
    /\ ClientUnchanged

----------------------------------------------------------------------------
(* Requests *)

Envs ==
    { [openaiKey |-> TRUE, supabaseUrl |-> TRUE, supabaseKey |-> TRUE],
      [openaiKey |-> FALSE, supabaseUrl |-> TRUE, supabaseKey |-> TRUE],
      [openaiKey |-> TRUE, supabaseUrl |-> FALSE, supabaseKey |-> TRUE],
      [openaiKey |-> TRUE, supabaseUrl |-> TRUE, supabaseKey |-> FALSE] }

\* the body does not parse, has no message, an empty one, or a message
Messages ==
    { [kind |-> "badjson", value |-> <<>>],
      [kind |-> "missing", value |-> <<>>],
      [kind |-> "string", value |-> <<>>],
      [kind |-> "string", value |-> Rep("q", 5)] }

ArrivalTime == 2 * RATE_LIMIT_WINDOW_MS

\* stores earlier requests can have left: empty, a window of the client that is
\* open, full, or expired (with an expired window of another client)
InitialStores ==
    { EmptyStore,
      [EmptyStore EXCEPT !["ip1"] =
          [present |-> TRUE, count |-> 1, resetAt |-> ArrivalTime + 1000]],
      [EmptyStore EXCEPT !["ip1"] =
          [present |-> TRUE, count |-> RATE_LIMIT_REQUESTS,
           resetAt |-> ArrivalTime + 1000]],
      [EmptyStore EXCEPT
          !["ip1"] = [present |-> TRUE, count |-> RATE_LIMIT_REQUESTS,
                      resetAt |-> ArrivalTime - 1],
          !["ip2"] = [present |-> TRUE, count |-> 2,
                      resetAt |-> ArrivalTime - 1]] }

\* histories of a request: none, a short exchange, and an exchange whose user
\* turn takes the whole history budget
RequestHistories(b) ==
    LET c == MaxHistoryTokens(b) * CHARS_PER_TOKEN
        turn(i, r, t) == [idx |-> i, role |-> r, content |-> t]
    IN  { <<>>,
          <<turn(1, "user", Rep("a", 8)), turn(2, "assistant", Rep("a", 20))>>,
          <<turn(1, "user", Rep("a", c)), turn(2, "assistant", Rep("a", 20))>> }

MaxDelay == 2

\* how long the three calls can take: the embedding, the RPC, the chat call
Latencies == [embed : 1..MaxDelay, rpc : 1..MaxDelay, chat : 1..MaxDelay]

\* A request arrives: the environment is one of E, the rate limit store one of
\* S, the body's message one of M and its history one of H, the calls take one
\* of L, the response is read by one of C and its frame numbered one of G
\* arrives unparseable.
InitWith(E, S, M, H, L, C, G) ==
    /\ build \in Builds
    /\ pc = "received"
    /\ NoTruncation
    /\ history \in (H \cap RequestHistories(build))
    /\ trimmedHistory = <<>>
    /\ matches = <<>>
    /\ systemPrompt = SystemPrompt(build)
    /\ userQuery = <<>>
    /\ historyTokens = 0
    /\ assembled = NoResult
    /\ env \in E
    /\ clientIP = "ip1"
    /\ now = ArrivalTime
    /\ rateLimitStore \in S
    /\ rateLimit = NoRateLimit
    /\ message \in M
    /\ embedResult = "pending"
    /\ rpcResult = NoRpc
    /\ calls = NoCalls
    /\ reached = {}
    /\ response = NoResponse
    /\ sources = <<>>
    /\ chatStream = NoStream
    /\ readPos = 0
    /\ out = <<>>
    /\ NoSource
    /\ NoQuery
    /\ latency \in L
    /\ clock = ArrivalTime
    /\ NoTimes
    /\ NoCancel
    /\ client \in C
    /\ garbled \in G
    /\ delivered = 0
    /\ partial = FALSE
    /\ clientState = NoClientState
    /\ NoLimitHistory
    /\ widget = NoWidget

Init ==
    InitWith(Envs, InitialStores, Messages,
             RequestHistories("chatbot") \cup RequestHistories("route"),
             Latencies, {"script"}, {0})

Next ==
    \/ Receive
    \/ BodyArrives
    \/ EmbedReturns
    \/ RetrieveReturns
    \/ GenerateReturns
    \/ ForwardToken
    \/ SkipChunk
    \/ StreamEnds
    \/ StreamFails
    \/ Disconnect

Spec == Init /\ [][Next]_vars

----------------------------------------------------------------------------
(* One well-formed request with the consumer of its response *)

\* the most frames a response has: a token per chunk, the sources, the done
\* signal
MaxFrames == MaxChunks + 2

InitConsume ==
    InitWith({[openaiKey |-> TRUE, supabaseUrl |-> TRUE, supabaseKey |-> TRUE]},
             {EmptyStore},
             {[kind |-> "string", value |-> Rep("q", 5)]},
             {<<>>},
             {[embed |-> 1, rpc |-> 1, chat |-> 1]},
             Clients, 0..MaxFrames)

NextConsume ==
    \/ Next
    \/ ClientRead
    \/ ClientClose
    \/ ClientAnswer

SpecConsume == InitConsume /\ [][NextConsume]_vars

----------------------------------------------------------------------------
(* The chat widget: what the user does and what its requests do *)

\* the sendMessage calls the model lets run at once
MaxInFlight == 2

\* a sendMessage call that has not returned is awaiting fetch ("fetching") or
\* reading the streamed response, of which it has read tokens tokens
Fetching == [phase |-> "fetching", tokens |-> 0]

RemoveAt(s, i) == SubSeq(s, 1, i - 1) \o SubSeq(s, i + 1, Len(s))

\* sendMessage(text) up to its first await, called from a render in which
\* isLoading had the value loading, text.trim() being non-empty (nonEmpty)
SendMessageStart(w, nonEmpty, loading) ==
    IF ~nonEmpty \/ loading THEN w
    ELSE [w EXCEPT !.showChips = FALSE,
                   !.isLoading = TRUE,
                   !.requests = Append(@, Fetching)]

InitWidget ==
    /\ build = "chatbot"
    /\ pc = "idle"
    /\ NoTruncation
    /\ NoHistory
    /\ NoContext
    /\ NoRequest
    /\ NoSource
    /\ NoQuery

WidgetUnchanged ==
    UNCHANGED <<build, pc, truncVars, histVars, ctxVars, srcVars, qryVars, env,
                clientIP, now, rateLimitStore, rateLimit, message, embedResult,
                rpcResult, calls, reached, response, sources, chatStream,
                readPos, out, perfVars, cancelVars, clientVars, limVars>>

\* setTimeout(() => setShowChips(true), 100) of initializeBot fires
ChipsAppear ==
    /\ widget.chipsTimer
    /\ widget' = [widget EXCEPT !.chipsTimer = FALSE, !.showChips = TRUE]
    /\ WidgetUnchanged

\* the user changes the text of the textarea (disabled={isLoading}):
\* onChange sets input to whatever the textarea holds, text or none
TypeInput ==
    /\ ~widget.isLoading
    /\ \E nonEmpty \in BOOLEAN :
         /\ nonEmpty # widget.input
         /\ widget' = [widget EXCEPT !.input = nonEmpty]
    /\ WidgetUnchanged

\* the user clicks Send (disabled={isLoading || !input.trim()}) or presses
\* Enter (handleKeyDown): handleSubmit sets the debounce timer, whose callback
\* keeps the input and isLoading of this render
Submit ==
    /\ widget.input
    /\ ~widget.isLoading
    /\ widget' = [widget EXCEPT !.timer =
                      [pending |-> TRUE, input |-> widget.input,
                       isLoading |-> widget.isLoading]]
    /\ WidgetUnchanged

\* the debounce timer fires, 200 ms after the last submit
TimerFires ==
    /\ widget.timer.pending
    /\ Len(widget.requests) < MaxInFlight
    /\ LET tm == widget.timer
           cleared == [widget EXCEPT !.timer = NoTimer]
       IN  widget' = IF tm.input /\ ~tm.isLoading
                     THEN SendMessageStart([cleared EXCEPT !.input = FALSE],
                                           tm.input, tm.isLoading)
                     ELSE cleared
    /\ WidgetUnchanged

\* the user clicks a chip: handleChipClick
ChipClick ==
    /\ widget.showChips
    /\ Len(widget.requests) < MaxInFlight
    /\ widget' = SendMessageStart([widget EXCEPT !.input = FALSE], TRUE,
                                  widget.isLoading)
    /\ WidgetUnchanged

\* fetch resolves for call i: an event stream (setIsLoading(false), then the
\* read loop), or a response that ends the call (finally: setIsLoading(false))
ResponseArrives ==
    /\ \E i \in DOMAIN widget.requests :
           /\ widget.requests[i].phase = "fetching"
           /\ \/ widget' = [widget EXCEPT !.isLoading = FALSE,
                                           !.requests[i].phase = "streaming"]
              \/ widget' = [widget EXCEPT !.isLoading = FALSE,
                                           !.requests = RemoveAt(@, i)]
    /\ WidgetUnchanged

\* reader.read() of call i resolves with a token event
TokenArrives ==
    /\ \E i \in DOMAIN widget.requests :
           /\ widget.requests[i].phase = "streaming"
           /\ widget.requests[i].tokens < MaxChunks
           /\ widget' = [widget EXCEPT !.requests[i].tokens = @ + 1]
    /\ WidgetUnchanged

\* reader.read() of call i resolves with done: finally, setIsLoading(false)
ResponseRead ==
    /\ \E i \in DOMAIN widget.requests :
           /\ widget.requests[i].phase = "streaming"
           /\ widget' = [widget EXCEPT !.isLoading = FALSE,
                                       !.requests = RemoveAt(@, i)]
    /\ WidgetUnchanged

NextWidget ==
    \/ ChipsAppear
    \/ TypeInput
    \/ Submit
    \/ TimerFires
    \/ ChipClick
    \/ ResponseArrives
    \/ TokenArrives
    \/ ResponseRead

SpecWidget == InitWidget /\ [][NextWidget]_vars

----------------------------------------------------------------------------
(* Properties of the truncator *)

\* C2 (as claimed): whatever branch truncateToTokens takes, the estimate of the
\* text it returns is at most the budget it was given.
C2_TruncatedFitsBudget ==
    pc = "truncated" => estimateTokens(truncated) <= maxTokens

\* C22 (as claimed): truncating the result of a truncation again, to the same
\* budget, returns it unchanged.
C22_TruncateIdempotent ==
    pc = "truncated" => truncateToTokens(truncated, maxTokens) = truncated

\* C23 (as claimed): the result of a truncation has at most as many characters
\* as the text.
C23_TruncatedNoLonger ==
    pc = "truncated" => Length(truncated) <= Length(text)

\* C24 (as claimed): a truncation to a budget of 0 returns the empty string.
C24_ZeroBudgetIsEmpty ==
    (pc = "truncated" /\ maxTokens = 0) => truncated = <<>>

\* C25: a text whose estimate is within the budget is returned unchanged.
C25_FittingTextUnchanged ==
    (pc = "truncated" /\ estimateTokens(text) <= maxTokens)
        => truncated = text

\* C25 witness: a text of exactly budget * 4 characters, whose estimate is the
\* budget, came back unchanged.
C25_Witness ==
    /\ pc = "truncated"
    /\ maxTokens = MaxBudget
    /\ Length(text) = maxTokens * CHARS_PER_TOKEN
    /\ estimateTokens(text) = maxTokens
    /\ truncated = text

----------------------------------------------------------------------------
(* Properties of the history trimmer *)

\* the positions in the input history of the turns trimHistory returned
KeptIdx == {trimmedHistory[j].idx : j \in DOMAIN trimmedHistory}

\* the returned turn that stands for input turn i
KeptTurn(i) ==
    trimmedHistory[CHOOSE j \in DOMAIN trimmedHistory : trimmedHistory[j].idx = i]

IsPairAt(i) ==
    /\ i \in 2..Len(history)
    /\ history[i].role = "assistant"
    /\ history[i - 1].role = "user"

\* C3 (as claimed): the turns the pair-aware trimHistory keeps (whole or
\* truncated) are exactly the last k turns of the input for some k: no turn is
\* dropped while an older turn is kept.
C3_KeptIsSuffix ==
    (pc = "trimmed" /\ build = "chatbot") =>
        \E k \in 0..Len(history) :
            KeptIdx = (Len(history) - k + 1)..Len(history)

\* C4 (as claimed): trimHistory returns the kept turns oldest first, a user
\* turn before the assistant reply that follows it.
C4_KeptInOrder ==
    pc = "trimmed" =>
        \A j, k \in DOMAIN trimmedHistory :
            j < k => trimmedHistory[j].idx < trimmedHistory[k].idx

\* C5: the pair-aware trimHistory never keeps an assistant turn (whole or
\* truncated) without the user turn immediately before it, and that user turn
\* is kept whole.
C5_AssistantKeepsItsUser ==
    (pc = "trimmed" /\ build = "chatbot") =>
        \A i \in KeptIdx :
            IsPairAt(i) =>
                /\ (i - 1) \in KeptIdx
                /\ KeptTurn(i - 1).content = history[i - 1].content

\* C5 witness: a pair that did not fit whole was kept with the assistant half
\* truncated and the user half intact.
C5_Witness ==
    /\ pc = "trimmed"
    /\ build = "chatbot"
    /\ \E i \in KeptIdx :
          /\ IsPairAt(i)
          /\ KeptTurn(i).content # history[i].content
          /\ (i - 1) \in KeptIdx

\* C6 (as claimed): the most recent turn is kept, whole or truncated, unless its
\* own estimate exceeds the history budget.
C6_NewestKept ==
    (/\ pc = "trimmed"
     /\ history # <<>>
     /\ estimateTokens(history[Len(history)].content) <= MaxHistoryTokens(build))
        => Len(history) \in KeptIdx

\* C7 (as claimed): the estimates of the returned turns sum to at most the
\* history budget.
C7_KeptWithinBudget ==
    pc = "trimmed" => SumTokens(trimmedHistory) <= MaxHistoryTokens(build)

----------------------------------------------------------------------------
(* Properties of the context assembler *)

\* C1 (as claimed): the totalTokens that buildContextWithTokenManagement
\* reports (system prompt + numbered context + query + prefix + history) is at
\* most MAX_CONTEXT_TOKENS.
C1_TotalWithinCeiling ==
    pc = "assembled" => assembled.totalTokens <= MAX_CONTEXT_TOKENS

\* C1, the same with the reserved tokens below the ceiling and no truncation:
\* the ordinal markers and separators alone carry the total over the ceiling.
C1_TotalWithinCeilingWhenRoomLeft ==
    (/\ pc = "assembled"
     /\ assembled.totalTokens - estimateTokens(assembled.context)
            < MAX_CONTEXT_TOKENS
     /\ \A k \in DOMAIN assembled.selectedMatches :
            assembled.selectedMatches[k] = matches[k])
        => assembled.totalTokens <= MAX_CONTEXT_TOKENS

----------------------------------------------------------------------------
(* Properties of the POST handler *)

IsTerminal(e) == e.type \in {"done", "error"}

RECURSIVE ForwardedUpTo(_, _)
\* the token events of the chunks with content among the first k chunks
ForwardedUpTo(items, k) ==
    IF k = 0 THEN <<>>
    ELSE IF items[k] = "token"
         THEN Append(ForwardedUpTo(items, k - 1), TokenEvent(k))
         ELSE ForwardedUpTo(items, k - 1)

\* C8: the events of a streaming response are token events, at most one
\* sources event and, once the handler has closed the stream, exactly one
\* terminal event (done or error), which is the last event; when generation
\* fails, the events are the tokens forwarded until then followed by the error
\* event.
C8_StreamProtocol ==
    /\ \A j \in DOMAIN out :
          /\ out[j].type \in {"token", "sources", "done", "error"}
          /\ IsTerminal(out[j]) => j = Len(out)
    /\ Cardinality({j \in DOMAIN out : out[j].type = "sources"}) <= 1
    /\ (out # <<>> /\ IsTerminal(out[Len(out)])) => pc = "closed"
    /\ pc = "closed" =>
          /\ out # <<>>
          /\ IsTerminal(out[Len(out)])
          /\ chatStream.ending = "fail" =>
                out = Append(ForwardedUpTo(chatStream.items,
                                           Len(chatStream.items)), ErrorEvent)
          /\ chatStream.ending = "end" => out[Len(out)] = DoneEvent

\* C8 witness: generation failed after two tokens had been forwarded, and the
\* response is those two token events and the error event.
C8_Witness ==
    /\ pc = "closed"
    /\ chatStream.ending = "fail"
    /\ Len(out) = 3
    /\ out[1].type = "token"
    /\ out[2].type = "token"
    /\ out[3] = ErrorEvent

\* C9: when retrieval returns no matches (null or an empty list) the request
\* ends with the fallback answer and no sources as a JSON response, nothing is
\* streamed and the chat model is never called.
C9_NoMatchesFallback ==
    (rpcResult.state = "null" \/ (rpcResult.state = "rows" /\ rpcResult.data = <<>>))
        => /\ pc = "responded"
           /\ response = FallbackAnswer
           /\ response.sources = <<>>
           /\ calls.chat = 0
           /\ out = <<>>

\* C9 witness: the RPC returned an empty list and the fallback was returned.
C9_Witness ==
    /\ rpcResult.state = "rows"
    /\ rpcResult.data = <<>>
    /\ calls.rpc = 1
    /\ response.kind = "json"
    /\ response.answer # ""

\* C10: when the embedding call fails or the RPC returns an error (or throws),
\* the request ends with a JSON error response; history trimming, context
\* assembly and generation are never reached and no answer is produced.
C10_RetrievalFailureIsExplicit ==
    (embedResult = "failed" \/ rpcResult.state \in {"error", "threw"})
        => /\ pc = "responded"
           /\ response.kind = "json"
           /\ response.status = 500
           /\ response.error # ""
           /\ response.answer = ""
           /\ reached \cap {"trim", "assemble", "generate"} = {}
           /\ calls.chat = 0
           /\ assembled = NoResult
           /\ out = <<>>

\* C10 witness: the RPC returned an error after a successful embedding call.
C10_Witness ==
    /\ embedResult = "ok"
    /\ rpcResult.state = "error"
    /\ response.error = "Failed to retrieve documents"

RECURSIVE MarkerDigits(_)
\* the characters that follow each "[" of a context, in order (chunk contents
\* of the model hold no "[")
MarkerDigits(s) ==
    IF Len(s) < 2 THEN <<>>
    ELSE IF Head(s).ch = "[" THEN <<s[2].ch>> \o MarkerDigits(Tail(Tail(s)))
    ELSE MarkerDigits(Tail(s))

\* C11: the selected matches are the first n input matches in input order, all
\* but the last with their content untouched, and the context numbers them
\* [1]..[n] in that order.
C11_SelectedIsPrefix ==
    pc = "assembled" =>
        LET sel == assembled.selectedMatches
        IN  /\ Len(sel) <= Len(matches)
            /\ \A k \in DOMAIN sel :
                  /\ sel[k].id = matches[k].id
                  /\ k < Len(sel) => sel[k] = matches[k]
            /\ MarkerDigits(assembled.context)
                    = [k \in 1..Len(sel) |-> DigitChars[k + 1]]

\* C11 witness: of three matches the first was selected whole, the second
\* truncated and the third left out.
C11_Witness ==
    /\ pc = "assembled"
    /\ Len(matches) = 3
    /\ Len(assembled.selectedMatches) = 2
    /\ assembled.selectedMatches[1] = matches[1]
    /\ assembled.selectedMatches[2].id = 2
    /\ assembled.selectedMatches[2].content # matches[2].content

RECURSIVE ChunkTokensUpTo(_, _)
\* the estimates of the first k matches, added up
ChunkTokensUpTo(ms, k) ==
    IF k = 0 THEN 0
    ELSE ChunkTokensUpTo(ms, k - 1) + estimateTokens(ms[k].content)

\* the tokens reserved before any chunk: system prompt, query, prefix, history
ReservedTokens ==
    estimateTokens(systemPrompt) + estimateTokens(userQuery)
        + estimateTokens(Rep("x", CONTEXT_PREFIX_CHARS)) + historyTokens

\* C12: when the reserved tokens alone exceed MAX_CONTEXT_TOKENS the assembler
\* returns an empty context and no selected matches, and the handler has gone
\* on to call the chat model: the request is answered by the streaming
\* response, or by an error only if the chat call itself throws.
C12_BudgetExhaustionDegrades ==
    (/\ pc = "assembled" \/ "assemble" \in reached
     /\ ReservedTokens > MAX_CONTEXT_TOKENS)
        => /\ assembled.context = <<>>
           /\ assembled.selectedMatches = <<>>
           /\ "assemble" \in reached =>
                 /\ "generate" \in reached
                 /\ calls.chat = 1
                 /\ pc \in {"generating", "streaming", "closed", "aborted",
                           "responded"}
                 /\ pc \in {"streaming", "closed", "aborted"}
                       => response = StreamResponse

\* C12 witness: a request whose trimmed history alone is over the ceiling got
\* matches back, an empty context was assembled and its answer is streaming.
C12_Witness ==
    /\ "assemble" \in reached
    /\ historyTokens > MAX_CONTEXT_TOKENS
    /\ Len(matches) > 0
    /\ assembled.context = <<>>
    /\ pc = "streaming"
    /\ Len(out) > 0

\* the safe budget of the chunks: 95% of what the reserved tokens leave
SafeBudget == (19 * (MAX_CONTEXT_TOKENS - ReservedTokens)) \div 20

\* the position of the first match that does not fit whole after those before
\* it, Len(matches) + 1 when all fit
FirstMisfit ==
    LET over == {k \in DOMAIN matches : ChunkTokensUpTo(matches, k) > SafeBudget}
    IN  IF over = {} THEN Len(matches) + 1
        ELSE CHOOSE k \in over : \A j \in over : k <= j

\* C26: the matches before the first one that does not fit whole are selected
\* untouched; that match is selected, cut by truncateToTokens to the budget
\* that is left, exactly when that budget is at least MIN_CHUNK_TOKENS; no
\* match after it is selected.  Hence at most one selected match, the last, is
\* truncated.  Of five matches of 800 tokens with 1500 tokens available, two
\* are selected: the first whole, the second truncated.
C26_StopsAtFirstMisfit ==
    pc = "assembled" =>
        LET sel == assembled.selectedMatches
            j == FirstMisfit
            left == SafeBudget - ChunkTokensUpTo(matches, j - 1)
        IN  /\ \A k \in 1..(j - 1) : k \in DOMAIN sel /\ sel[k] = matches[k]
            /\ j > Len(matches) => Len(sel) = Len(matches)
            /\ (j <= Len(matches) /\ left >= MIN_CHUNK_TOKENS)
                  => /\ Len(sel) = j
                     /\ sel[j].id = matches[j].id
                     /\ sel[j].content
                            = truncateToTokens(matches[j].content, left)
                     /\ sel[j].content # matches[j].content
            /\ (j <= Len(matches) /\ left < MIN_CHUNK_TOKENS)
                  => Len(sel) = j - 1
            /\ Cardinality({k \in DOMAIN sel : sel[k] # matches[k]}) <= 1
            /\ (matches = FiveLargeMatches
                    /\ MAX_CONTEXT_TOKENS - ReservedTokens = 1500)
                  => /\ Len(sel) = 2
                     /\ sel[1] = matches[1]
                     /\ sel[2].id = 2
                     /\ Length(sel[2].content) < Length(matches[2].content)

\* C26 witness: five matches of 800 tokens with 1500 tokens available, of
\* which the first was selected whole and the second truncated.
C26_Witness ==
    /\ pc = "assembled"
    /\ matches = FiveLargeMatches
    /\ MAX_CONTEXT_TOKENS - ReservedTokens = 1500
    /\ Len(assembled.selectedMatches) = 2
    /\ assembled.selectedMatches[2].content # matches[2].content

\* C26 witness of the minimum: a match that does not fit was left out although
\* some budget, less than MIN_CHUNK_TOKENS, was left, and a match after it
\* would have fitted.
C26_WitnessBelowMinimum ==
    /\ pc = "assembled"
    /\ FirstMisfit = 1
    /\ SafeBudget \in 1..(MIN_CHUNK_TOKENS - 1)
    /\ Len(matches) > 1
    /\ estimateTokens(matches[2].content) <= SafeBudget
    /\ assembled.selectedMatches = <<>>

----------------------------------------------------------------------------
(* Properties of the source selector *)

IsSpecific(u) == u # "" /\ u \notin HomepageUrls

\* C13: whenever some match has a non-empty URL that is not a homepage URL,
\* findMostRelevantSource returns a source whose URL is a specific page,
\* whatever the similarity scores and chunk counts.
C13_SpecificPreferred ==
    (/\ pc = "selected"
     /\ \E k \in DOMAIN usedMatches : IsSpecific(usedMatches[k].source_url))
        => bestSource.found /\ IsSpecific(bestSource.url)

\* C13 witness: a specific page with similarity 0.4 was returned although the
\* homepage was matched twice with similarity 0.9.
C13_Witness ==
    /\ pc = "selected"
    /\ Len(usedMatches) = 3
    /\ \E k \in DOMAIN usedMatches :
          /\ IsSpecific(usedMatches[k].source_url)
          /\ usedMatches[k].similarity = 40
          /\ bestSource.url = usedMatches[k].source_url
          /\ \A j \in DOMAIN usedMatches \ {k} :
                /\ usedMatches[j].source_url \in HomepageUrls
                /\ usedMatches[j].similarity = 90

\* C14: when all the matches (one or more) share one specific URL, that URL is
\* returned, with the content of a match that no other match exceeds in
\* length.
C14_SingleUrlLongestContent ==
    (/\ pc = "selected"
     /\ usedMatches # <<>>
     /\ IsSpecific(usedMatches[1].source_url)
     /\ \A k \in DOMAIN usedMatches :
           usedMatches[k].source_url = usedMatches[1].source_url)
        => /\ bestSource.found
           /\ bestSource.url = usedMatches[1].source_url
           /\ \E k \in DOMAIN usedMatches :
                 bestSource.content = usedMatches[k].content
           /\ \A k \in DOMAIN usedMatches :
                 Length(usedMatches[k].content) <= Length(bestSource.content)

\* C14 witness: three matches of one specific page, the longest content not
\* in the first match, and that content returned.
C14_Witness ==
    /\ pc = "selected"
    /\ Len(usedMatches) = 3
    /\ IsSpecific(usedMatches[1].source_url)
    /\ \A k \in DOMAIN usedMatches :
          usedMatches[k].source_url = usedMatches[1].source_url
    /\ Length(usedMatches[1].content) < Length(usedMatches[2].content)
    /\ bestSource.content = usedMatches[2].content

\* the matches of URL u
MatchesOfUrl(u) ==
    {k \in DOMAIN usedMatches : usedMatches[k].source_url = u}

\* the aggregate similarity of URL u: the highest of its matches
AggregateSimilarity(u) ==
    CHOOSE x \in {usedMatches[k].similarity : k \in MatchesOfUrl(u)} :
        \A k \in MatchesOfUrl(u) : usedMatches[k].similarity <= x

\* the URLs of the partition of URL u: the homepage URLs, or the others
PartitionUrls(u) ==
    {usedMatches[k].source_url : k \in DOMAIN usedMatches}
        \cap (IF u \in HomepageUrls THEN HomepageUrls
              ELSE {v \in RankUrls \cup SourceUrls :
                       v # "" /\ v \notin HomepageUrls})

\* C27 (as claimed): no URL of the partition of the returned URL has an
\* aggregate similarity more than 0.05 above that of the returned URL, and none
\* within 0.05 of it has more matches.
C27_ReturnedIsTopRanked ==
    (pc = "selected" /\ bestSource.found /\ bestSource.url # "")
        => \A v \in PartitionUrls(bestSource.url) \ {bestSource.url} :
              LET mine == AggregateSimilarity(bestSource.url)
                  theirs == AggregateSimilarity(v)
              IN  IF SimilarityDiffers(mine, theirs)
                  THEN theirs < mine
                  ELSE Cardinality(MatchesOfUrl(v))
                           <= Cardinality(MatchesOfUrl(bestSource.url))

\* C27, the same for at most two URLs in the partition of the returned URL
C27_ReturnedIsTopRankedOfTwo ==
    (/\ pc = "selected" /\ bestSource.found /\ bestSource.url # ""
     /\ Cardinality(PartitionUrls(bestSource.url)) <= 2)
        => \A v \in PartitionUrls(bestSource.url) \ {bestSource.url} :
              LET mine == AggregateSimilarity(bestSource.url)
                  theirs == AggregateSimilarity(v)
              IN  IF SimilarityDiffers(mine, theirs)
                  THEN theirs < mine
                  ELSE Cardinality(MatchesOfUrl(v))
                           <= Cardinality(MatchesOfUrl(bestSource.url))

----------------------------------------------------------------------------
(* Properties of the contextual query builder *)

\* the contents of the turns under the ceiling of their role, oldest first
UnderCeiling ==
    LET Short(m) ==
            \/ (m.role = "assistant" /\ Length(m.content) < 1000)
            \/ (m.role = "user" /\ Length(m.content) < 500)
        kept == SelectSeq(history, Short)
    IN  [k \in DOMAIN kept |-> kept[k].content]

\* query + ' ' + the contents under the ceiling joined by spaces
QueryThenContext == Concat(query, Concat(Rep(" ", 1), JoinSpaces(UnderCeiling)))

\* C15 (as claimed): for a query of at most 3 words and a non-empty history
\* the result is the query, a space, and the contents of the turns under the
\* ceiling of their role joined by spaces in chronological order.
C15_QueryThenContext ==
    (pc = "expanded" /\ wordCount(query) <= 3 /\ history # <<>>)
        => contextualQuery = QueryThenContext

\* C15 (amended): the same when at least one turn is under its ceiling; when
\* none is, the result is the query alone, with no space after it.  Either
\* way the query is a prefix of the result and nothing is cut off.
C15_QueryThenContextIfAny ==
    (pc = "expanded" /\ wordCount(query) <= 3 /\ history # <<>>)
        => /\ contextualQuery =
                  IF UnderCeiling # <<>> THEN QueryThenContext ELSE query
           /\ substring(contextualQuery, Length(query)) = query
           /\ Length(contextualQuery) >= Length(query)

\* C15 witness: 'today' after [assistant: 'today or the weekend?'] gave
\* 'today today or the weekend?'.
C15_Witness ==
    /\ pc = "expanded"
    /\ query = FromChars(<<"t", "o", "d", "a", "y">>)
    /\ Len(history) = 1
    /\ history[1].role = "assistant"
    /\ Length(history[1].content) = 21
    /\ contextualQuery = Concat(query, Concat(Rep(" ", 1), history[1].content))
    /\ Length(contextualQuery) = 27

\* C16: a query of more than 3 words, or any query with an empty history, is
\* returned unchanged.
C16_LongOrNoHistoryUnchanged ==
    (pc = "expanded" /\ (wordCount(query) > 3 \/ history = <<>>))
        => contextualQuery = query

\* C16 witness: a four-word query was returned unchanged although the history
\* had a turn under its ceiling.
C16_Witness ==
    /\ pc = "expanded"
    /\ wordCount(query) = 4
    /\ UnderCeiling # <<>>
    /\ contextualQuery = query

----------------------------------------------------------------------------
(* Properties of the streaming of the answer *)

IsTokenEvent(e) == e.type = "token"

\* C17: as long as the consumer is connected, the token events of the response
\* are exactly the items with content read from the generation stream so far,
\* one event each and in order: every token is forwarded before the next item
\* is read, whether or not generation has ended.
C17_TokenForwardedBeforeNextRead ==
    (pc \in {"streaming", "closed"} /\ ~cancelled)
        => SelectSeq(out, IsTokenEvent)
               = ForwardedUpTo(chatStream.items, readPos)

\* C17 witness: the first token of a generation that has more items to come is
\* already in the response.
C17_Witness ==
    /\ pc = "streaming"
    /\ ~cancelled
    /\ readPos = 1
    /\ Len(chatStream.items) > 1
    /\ chatStream.items[1] = "token"
    /\ out = <<TokenEvent(1)>>

\* C18 (as claimed): once the consumer of a streaming response has
\* disconnected, the handler reads nothing more from the generation stream.
C18_AbandonedOnDisconnect ==
    [][cancelled => readPos' = readPos]_vars

\* C19 (as claimed): once the first token of a streaming response has been
\* forwarded, the X-Performance-Chat header of that response is the time from
\* the generation call to that token, and X-Performance-TTFB is the sum of
\* the embedding time, the retrieval time and that time.
C19_HeadersReportFirstToken ==
    (response.kind = "stream" /\ headers.present /\ firstTokenSent)
        => /\ headers.embedding = embeddingTime
           /\ headers.supabase = supabaseTime
           /\ headers.chat = chatTime
           /\ headers.ttfb = embeddingTime + supabaseTime + chatTime

----------------------------------------------------------------------------
(* Properties of the consumer of the response *)

RECURSIVE TokensOfFrames(_, _, _)
\* the indexes of the token events among the first k frames, but for frame bad
TokensOfFrames(frames, k, bad) ==
    IF k = 0 THEN <<>>
    ELSE IF frames[k].type = "token" /\ k # bad
         THEN Append(TokensOfFrames(frames, k - 1, bad), frames[k].data)
         ELSE TokensOfFrames(frames, k - 1, bad)

\* C20: a chunk without content does not end the response: the token events
\* of a response that is still open or was closed are those of all chunks with
\* content read so far, and a response closed after a generation that ended
\* well has them for every chunk with content.  An unparseable frame does not
\* end the reading: the consumer that has read a streamed response to its end
\* has processed every token event but the unparseable one, in order.
C20_MalformedItemSkipped ==
    /\ (pc \in {"streaming", "closed"} /\ ~cancelled)
          => TokensOfFrames(out, Len(out), 0)
                 = [j \in 1..Len(ForwardedUpTo(chatStream.items, readPos)) |->
                       ForwardedUpTo(chatStream.items, readPos)[j].data]
    /\ (pc = "closed" /\ chatStream.ending = "end")
          => readPos = Len(chatStream.items)
    /\ (response.kind = "stream" /\ clientState.done)
          => clientState.output = TokensOfFrames(out, Len(out), garbled)

\* C20 witness: a generation with a chunk without content before a chunk with
\* content, a response whose first token frame arrived unparseable, and a
\* consumer that has read it to its end and processed the later token.
C20_Witness ==
    /\ clientState.done
    /\ chatStream.items = <<"token", "empty", "token">>
    /\ garbled = 1
    /\ out[1].type = "token"
    /\ clientState.output = <<"t3">>

\* C29 (as claimed): the widget that has read to its end a response with an
\* error event has surfaced the error (status "ERROR" stands for the message
\* of type 'error' added to the conversation).
C29_WidgetSurfacesErrorEvent ==
    (/\ client = "widget"
     /\ clientState.done
     /\ \E j \in DOMAIN out : j # garbled /\ out[j].type = "error")
        => clientState.status = "ERROR"

\* C29, the same for the test script, which records the error event; the
\* status it set is overwritten when the tokens received read as a fallback
\* message
C29_ScriptRecordsErrorEvent ==
    (/\ client = "script"
     /\ clientState.done
     /\ \E j \in DOMAIN out : j # garbled /\ out[j].type = "error")
        => clientState.status =
               IF isFallbackMessage(clientState.output) THEN "FALLBACK"
               ELSE "ERROR"

----------------------------------------------------------------------------
(* Properties of the configuration test *)

\* C21: a request that arrives while the API key of the embedding backend or
\* the URL or key of the retrieval backend is missing is answered with an
\* error (status 500) in its first step; the rate limiter is not consulted and
\* no embedding, retrieval or generation call is ever made for it.
C21_MissingConfigIsFatal ==
    (~env.openaiKey \/ ~env.supabaseUrl \/ ~env.supabaseKey)
        => /\ pc \in {"received", "responded"}
           /\ calls = NoCalls
           /\ reached = {}
           /\ rateLimit = NoRateLimit
           /\ pc = "responded"
                 => response = JsonError(500, "Internal server error")

\* C21 witness: a well-formed request within its rate limit was answered with
\* the error because the retrieval backend's URL is missing.
C21_Witness ==
    /\ env.openaiKey /\ ~env.supabaseUrl
    /\ message.kind = "string" /\ message.value # <<>>
    /\ rateLimitStore = EmptyStore
    /\ pc = "responded"
    /\ response.status = 500
    /\ calls = NoCalls

----------------------------------------------------------------------------
(* Properties of the rate limiter *)

\* C28: after every call of checkRateLimit no stored count is above
\* RATE_LIMIT_REQUESTS, no client has been allowed more than
\* RATE_LIMIT_REQUESTS requests in its window, the returned remaining is not
\* negative and is what the window has left, a refused request has left the
\* record of its client as it was, and the decision is the one the limiter
\* takes when no cleanup has ever run.
C28_WindowAllowsAtMostLimit ==
    [][ pc = "serving" /\ now' = now =>
          /\ \A ip \in IPs :
                /\ rateLimitStore'[ip].count <= RATE_LIMIT_REQUESTS
                /\ windows'[ip].allowed <= RATE_LIMIT_REQUESTS
          /\ rateLimit'.remaining >= 0
          /\ rateLimit'.allowed =>
                rateLimit'.remaining
                    = RATE_LIMIT_REQUESTS - windows'[clientIP'].allowed
          /\ ~rateLimit'.allowed =>
                /\ rateLimitStore'[clientIP'] = rateLimitStore[clientIP']
                /\ windows'[clientIP'].allowed = RATE_LIMIT_REQUESTS
          /\ rateLimit' = checkRateLimit(plainStore, clientIP', now, FALSE).result
      ]_vars

\* C28 witness: a client was refused its 21st request of a window at the last
\* instant of the window, after a cleanup had dropped the expired record of
\* the other client.
C28_Witness ==
    /\ pc = "serving"
    /\ clientIP = "ip1"
    /\ ~rateLimit.allowed
    /\ rateLimit.resetAt = now
    /\ windows["ip1"].allowed = RATE_LIMIT_REQUESTS
    /\ plainStore["ip2"].present
    /\ ~rateLimitStore["ip2"].present

----------------------------------------------------------------------------
(* Properties of the chat widget *)

\* C30 (as claimed): at most one call of sendMessage is between the start of
\* its request and the end of the reading of its response.
C30_OneRequestInFlight ==
    Len(widget.requests) <= 1

====
